---- MODULE Spec2Model ----
(***************************************************************************)
(* Encapsula: the encode wizard (sections/encode.ts) and the decode wizard *)
(* (sections/decode.ts) with the stego codec they share: the 60-byte       *)
(* header, adaptive scrypt, AES-256-GCM, the HMAC counter PRNG, the PNG    *)
(* LSB backend and the JPEG APP15 / WebP chunk / trailer containers.       *)
(*                                                                         *)
(* Buffers are sequences of bytes (0..255), 1-indexed; a 0-based offset o  *)
(* of the source is element o + 1.  Node's crypto primitives (scrypt,      *)
(* AES-GCM, HMAC-SHA-256) and pngjs are outside the repository; they are   *)
(* modelled by small deterministic functions with the properties the code  *)
(* relies on (see Scrypt, AesGcmTag, HmacSha256, PngSyncRead).             *)
(***************************************************************************)
EXTENDS Integers, Sequences, FiniteSets, TLC

\* ---------------------------------------------------------------- constants
MAGIC == <<69, 67, 65, 80>>                       \* "ECAP"
VERSION == 1
HEADER_SIZE == 60
FLAG_ENCRYPTED == 1
FLAG_RANDOMIZED == 2
CHANNELS_MASK_RGB == 7
KDF_SCRYPT == 1
SCRYPT_LOGN_PREFERRED == 15
SCRYPT_LOGN_MIN == 12
SCRYPT_R == 8
SCRYPT_P == 1
SCRYPT_MAXMEM == 536870912                        \* 512 * 1024 * 1024
TRAILER_SIG == <<69, 67, 65, 80, 84, 82>>         \* "ECAPTR"
PERMUTE_LABEL == <<69, 67, 65, 80, 45, 80, 69, 82, 77, 85, 84, 69>>  \* "ECAP-PERMUTE"
RIFF == <<82, 73, 70, 70>>
WEBP == <<87, 69, 66, 80>>
PDF_SIG == <<37, 80, 68, 70, 45>>                 \* "%PDF-"
PNG_SIG == <<137, 80, 78, 71, 13, 10, 26, 10>>    \* "\x89PNG\r\n\x1a\n"
JPEG_MAX_BLOB == 65533                            \* 0xffff - 2
U32_CLIP == 2147483647

\* a null Buffer / null string; buffers are sequences of bytes, so null is a
\* sequence no buffer equals
NullBuf == <<-1>>

\* ------------------------------------------------------------ byte helpers
Pow2(n) == 2 ^ n

Min(a, b) == IF a < b THEN a ELSE b

Max(a, b) == IF a > b THEN a ELSE b

\* const x = v; followed by the statements Op stands for
Bind(v, Op(_)) == Op(v)

\* Buffer.slice(from, to) with 0-based, end-exclusive offsets, clamped.
Slice(b, from, to) == SubSeq(b, Min(from, Len(b)) + 1, Min(to, Len(b)))

SliceFrom(b, from) == Slice(b, from, Len(b))

\* bit k (0 = least significant) of byte v:  (v >> k) & 1
BitOf(v, k) == (v \div Pow2(k)) % 2

\* (v & ~(1 << k)) | (bit << k)
SetBit(v, k, bit) == v - BitOf(v, k) * Pow2(k) + bit * Pow2(k)

\* Buffer.compare(...) === 0 on a prefix: b starts with sig at 0-based offset o
HasAt(b, o, sig) == /\ o >= 0
                    /\ o + Len(sig) <= Len(b)
                    /\ \A i \in 1..Len(sig) : b[o + i] = sig[i]

\* Buffer.lastIndexOf(sig): 0-based offset of the last occurrence, or -1
LastIndexOf(b, sig) ==
  Bind({o \in 0..(Len(b) - Len(sig)) : HasAt(b, o, sig)},
       LAMBDA hits : IF hits = {} THEN -1 ELSE CHOOSE o \in hits : \A q \in hits : q <= o)

u32be(n) == <<(n \div 16777216) % 256, (n \div 65536) % 256, (n \div 256) % 256, n % 256>>

u32le(n) == <<n % 256, (n \div 256) % 256, (n \div 65536) % 256, (n \div 16777216) % 256>>

u16be(n) == <<(n \div 256) % 256, n % 256>>

\* readUInt32BE / readUInt32LE.  Values of 2^31 and more are clipped to
\* 2^31 - 1: the code only compares them with buffer lengths, all far smaller.
readUInt32BE(b, o) ==
  IF b[o + 1] >= 128 THEN U32_CLIP
  ELSE b[o + 1] * 16777216 + b[o + 2] * 65536 + b[o + 3] * 256 + b[o + 4]

readUInt32LE(b, o) ==
  IF b[o + 4] >= 128 THEN U32_CLIP
  ELSE b[o + 4] * 16777216 + b[o + 3] * 65536 + b[o + 2] * 256 + b[o + 1]

readUInt16BE(b, o) == b[o + 1] * 256 + b[o + 2]

Zeros(n) == [i \in 1..n |-> 0]

\* secureWipeBuffer: buffer.fill(0) when the buffer is not null
secureWipeBuffer(buffer) == IF buffer = NullBuf THEN NullBuf ELSE Zeros(Len(buffer))

\* weighted byte sum used by the models of the crypto primitives: the sum of
\* (i + 2) * (b[i] + 1) over i = lo..hi, modulo m, by halving the range
RECURSIVE WSumRange(_, _, _, _)
WSumRange(b, lo, hi, m) ==
  IF lo > hi THEN 0
  ELSE IF lo = hi THEN ((lo + 2) * (b[lo] + 1)) % m
  ELSE (WSumRange(b, lo, (lo + hi) \div 2, m) + WSumRange(b, ((lo + hi) \div 2) + 1, hi, m)) % m

WSum(b, i, m) == WSumRange(b, i, Len(b), m)

\* ------------------------------------------------------------------- text
\* TextEncoder.encode of one code point (BMP only: a key event is one UTF-16 unit)
Utf8Enc(cp) ==
  IF cp < 128 THEN <<cp>>
  ELSE IF cp < 2048 THEN <<192 + (cp \div 64), 128 + (cp % 64)>>
  ELSE <<224 + (cp \div 4096), 128 + ((cp \div 64) % 64), 128 + (cp % 64)>>

RECURSIVE textToBytes(_)
textToBytes(t) == IF t = <<>> THEN <<>> ELSE Utf8Enc(Head(t)) \o textToBytes(Tail(t))

IsCont(b, i) == i <= Len(b) /\ b[i] >= 128 /\ b[i] < 192

\* UTF-8 decoding with U+FFFD replacement (TextDecoder is never fatal here)
RECURSIVE Utf8Dec(_, _)
Utf8Dec(b, i) ==
  IF i > Len(b) THEN <<>>
  ELSE IF b[i] < 128 THEN <<b[i]>> \o Utf8Dec(b, i + 1)
  ELSE IF b[i] >= 194 /\ b[i] < 224 /\ IsCont(b, i + 1)
    THEN <<(b[i] - 192) * 64 + (b[i + 1] - 128)>> \o Utf8Dec(b, i + 2)
  ELSE IF b[i] >= 224 /\ b[i] < 240 /\ IsCont(b, i + 1) /\ IsCont(b, i + 2)
          /\ (b[i] - 224) * 4096 + (b[i + 1] - 128) * 64 >= 2048
    THEN <<(b[i] - 224) * 4096 + (b[i + 1] - 128) * 64 + (b[i + 2] - 128)>> \o Utf8Dec(b, i + 3)
  ELSE <<65533>> \o Utf8Dec(b, i + 1)

\* new TextDecoder().decode(b): ignoreBOM is false, so a leading U+FEFF is dropped
bytesToTextSafe(b) ==
  Bind(Utf8Dec(b, 1), LAMBDA s : IF s # <<>> /\ Head(s) = 65279 THEN Tail(s) ELSE s)

\* ----------------------------------------------------------------- header
\* buildHeader: magic(4) ver(1) flags(1) bits(1) channels(1) payloadLen(4)
\* kdf(1) logN(1) r(1) p(1) salt(16) iv(12) tag(16); throws on a bad length
\* a variant of buildHeader that writes the payload length little-endian
buildHeader_LittleEndian(params) ==
  LET flags == (IF params.encrypted THEN FLAG_ENCRYPTED ELSE 0)
               + (IF params.randomized THEN FLAG_RANDOMIZED ELSE 0)
  IN IF Len(params.salt) # 16 THEN [err |-> "salt must be 16 bytes", val |-> <<>>]
     ELSE IF Len(params.iv) # 12 THEN [err |-> "iv must be 12 bytes", val |-> <<>>]
     ELSE IF Len(params.tag) # 16 THEN [err |-> "tag must be 16 bytes", val |-> <<>>]
     ELSE [err |-> "",
           val |-> MAGIC \o <<VERSION, flags % 256, params.bitsPerChannel % 256,
                              params.channelsMask % 256>>
                   \o u32le(params.payloadLen)
                   \o <<params.kdf % 256, params.logN % 256, params.r % 256, params.p % 256>>
                   \o params.salt \o params.iv \o params.tag]

buildHeader(params) ==
  LET flags == (IF params.encrypted THEN FLAG_ENCRYPTED ELSE 0)
               + (IF params.randomized THEN FLAG_RANDOMIZED ELSE 0)
  IN IF Len(params.salt) # 16 THEN [err |-> "salt must be 16 bytes", val |-> <<>>]
     ELSE IF Len(params.iv) # 12 THEN [err |-> "iv must be 12 bytes", val |-> <<>>]
     ELSE IF Len(params.tag) # 16 THEN [err |-> "tag must be 16 bytes", val |-> <<>>]
     ELSE [err |-> "",
           val |-> MAGIC \o <<VERSION, flags % 256, params.bitsPerChannel % 256,
                              params.channelsMask % 256>>
                   \o u32be(params.payloadLen)
                   \o <<params.kdf % 256, params.logN % 256, params.r % 256, params.p % 256>>
                   \o params.salt \o params.iv \o params.tag]

NoMeta == [version |-> 0, encrypted |-> FALSE, randomized |-> FALSE, bitsPerChannel |-> 0,
           channelsMask |-> 0, payloadLen |-> 0, kdf |-> 0, logN |-> 0, r |-> 0, p |-> 0,
           salt |-> <<>>, iv |-> <<>>, tag |-> <<>>]

\* a variant of parseHeader that reads the fields of every version from 1 on
parseHeader_LaterVersions(h) ==
  IF Len(h) < HEADER_SIZE THEN [err |-> "Header too small", meta |-> NoMeta]
  ELSE IF ~HasAt(h, 0, MAGIC)
    THEN [err |-> "Not an Encapsula carrier (magic mismatch)", meta |-> NoMeta]
  ELSE IF h[5] < VERSION
    THEN [err |-> "Unsupported version " \o ToString(h[5]), meta |-> NoMeta]
  ELSE IF h[13] # KDF_SCRYPT THEN [err |-> "Unsupported KDF", meta |-> NoMeta]
  ELSE [err |-> "",
        meta |-> [version |-> h[5],
                  encrypted |-> BitOf(h[6], 0) = 1,
                  randomized |-> BitOf(h[6], 1) = 1,
                  bitsPerChannel |-> h[7],
                  channelsMask |-> h[8],
                  payloadLen |-> readUInt32BE(h, 8),
                  kdf |-> h[13], logN |-> h[14], r |-> h[15], p |-> h[16],
                  salt |-> Slice(h, 16, 32), iv |-> Slice(h, 32, 44),
                  tag |-> Slice(h, 44, 60)]]

\* parseHeader: throws on a short input, a magic mismatch, a version other
\* than VERSION and a kdf other than KDF_SCRYPT; no other field is checked
parseHeader(h) ==
  IF Len(h) < HEADER_SIZE THEN [err |-> "Header too small", meta |-> NoMeta]
  ELSE IF ~HasAt(h, 0, MAGIC)
    THEN [err |-> "Not an Encapsula carrier (magic mismatch)", meta |-> NoMeta]
  ELSE IF h[5] # VERSION
    THEN [err |-> "Unsupported version " \o ToString(h[5]), meta |-> NoMeta]
  ELSE IF h[13] # KDF_SCRYPT THEN [err |-> "Unsupported KDF", meta |-> NoMeta]
  ELSE [err |-> "",
        meta |-> [version |-> h[5],
                  encrypted |-> BitOf(h[6], 0) = 1,
                  randomized |-> BitOf(h[6], 1) = 1,
                  bitsPerChannel |-> h[7],
                  channelsMask |-> h[8],
                  payloadLen |-> readUInt32BE(h, 8),
                  kdf |-> h[13], logN |-> h[14], r |-> h[15], p |-> h[16],
                  salt |-> Slice(h, 16, 32), iv |-> Slice(h, 32, 44),
                  tag |-> Slice(h, 44, 60)]]

\* ----------------------------------------------------------------- crypto
\* crypto.scrypt(password, salt, 32, {N, r, p, maxmem}): the parameter check.
\* N = 1 << logN is a 32-bit shift, so only logN mod 32 matters; scrypt wants
\* N a power of two above 1, r and p positive and about 128 * r * (N + p + 2)
\* bytes within maxmem.
ScryptShift(logN) == logN % 32

ScryptParamsOK(logN, r, p) ==
  /\ ScryptShift(logN) >= 1
  /\ ScryptShift(logN) <= 30
  /\ r >= 1
  /\ p >= 1
  /\ Pow2(ScryptShift(logN)) <= (SCRYPT_MAXMEM \div (128 * r)) - p - 2

PadTo(b, n) == [i \in 1..n |-> IF i <= Len(b) THEN b[i] ELSE 0]

\* The derived key.  scrypt is modelled as collision-free in (password, salt,
\* N, r, p): the 32 bytes hold the inputs themselves.
Scrypt(password, salt, logN, r, p) ==
  <<Len(password) + 1>> \o PadTo(password, 6) \o PadTo(salt, 16)
    \o <<ScryptShift(logN), r, p>> \o <<90, 90, 90, 90, 90, 90>>

\* What one call of crypto.scrypt comes to: the derived key (ScryptOk) or an
\* error with its code and message.
ScryptOk == [code |-> "", message |-> ""]

ScryptMemoryLimit == [code |-> "", message |-> "Invalid scrypt params: memory limit exceeded"]

ScryptInvalidParams == [code |-> "ERR_CRYPTO_INVALID_SCRYPT_PARAMS", message |-> "Invalid scrypt parameter"]

ScryptOtherError == [code |-> "ERR_CRYPTO_OPERATION_FAILED", message |-> "Scrypt failed"]

ScryptOutcomes == {ScryptOk, ScryptMemoryLimit, ScryptInvalidParams, ScryptOtherError}

\* e?.code === "ERR_CRYPTO_INVALID_SCRYPT_PARAMS" || /memory limit/i.test(msg)
IsMemoryLimitError(e) ==
  \/ e.code = "ERR_CRYPTO_INVALID_SCRYPT_PARAMS"
  \/ e.message \in {"Invalid scrypt params: memory limit exceeded", "memory limit exceeded"}

\* crypto.scrypt on a device whose memory reaches to N = 2^devLogN: the
\* outcome of a call for each logN
DeviceScrypt(devLogN, r, p) ==
  [logN \in 0..31 |-> IF ScryptParamsOK(logN, r, p) /\ logN <= devLogN
                        THEN ScryptOk ELSE ScryptMemoryLimit]

\* a variant of deriveKeyAdaptive that moves to the next logN on every error
RECURSIVE deriveKeyAdaptive_RetryAll(_, _, _, _, _, _)
deriveKeyAdaptive_RetryAll(password, salt, logN, r, p, scrypt) ==
  IF logN < SCRYPT_LOGN_MIN
    THEN [err |-> "scrypt parameters not supported on this device (too little memory)",
          key |-> NullBuf, logNUsed |-> 0, attempts |-> <<>>]
  ELSE IF scrypt[logN] = ScryptOk
    THEN [err |-> "", key |-> Scrypt(password, salt, logN, r, p), logNUsed |-> logN,
          attempts |-> <<logN>>]
  ELSE Bind(deriveKeyAdaptive_RetryAll(password, salt, logN - 1, r, p, scrypt),
            LAMBDA next : [next EXCEPT !.attempts = <<logN>> \o @])

\* deriveKeyAdaptive: logN from preferredLogN down to 12; an attempt that
\* fails with a memory-limit / invalid-params error moves one lower, any
\* other error is rethrown.  scrypt[logN] is what the call for logN comes to;
\* attempts lists the logN of the calls made.
RECURSIVE deriveKeyAdaptive(_, _, _, _, _, _)
deriveKeyAdaptive(password, salt, logN, r, p, scrypt) ==
  IF logN < SCRYPT_LOGN_MIN
    THEN [err |-> "scrypt parameters not supported on this device (too little memory)",
          key |-> NullBuf, logNUsed |-> 0, attempts |-> <<>>]
  ELSE IF scrypt[logN] = ScryptOk
    THEN [err |-> "", key |-> Scrypt(password, salt, logN, r, p), logNUsed |-> logN,
          attempts |-> <<logN>>]
  ELSE IF IsMemoryLimitError(scrypt[logN])
    THEN Bind(deriveKeyAdaptive(password, salt, logN - 1, r, p, scrypt),
              LAMBDA next : [next EXCEPT !.attempts = <<logN>> \o @])
  ELSE [err |-> scrypt[logN].message, key |-> NullBuf, logNUsed |-> 0, attempts |-> <<logN>>]

\* a variant of deriveKeyFixed that derives the key of the empty password
deriveKeyFixed_NoPassword(password, salt, logN, r, p, devLogN) ==
  IF ScryptParamsOK(logN, r, p) /\ ScryptShift(logN) <= devLogN
    THEN [err |-> "", key |-> Scrypt(<<>>, salt, logN, r, p)]
  ELSE [err |-> "Invalid scrypt params: memory limit exceeded", key |-> NullBuf]

\* deriveKeyFixed: one scrypt call with the stored parameters, no retry
deriveKeyFixed(password, salt, logN, r, p, devLogN) ==
  IF ScryptParamsOK(logN, r, p) /\ ScryptShift(logN) <= devLogN
    THEN [err |-> "", key |-> Scrypt(password, salt, logN, r, p)]
  ELSE [err |-> "Invalid scrypt params: memory limit exceeded", key |-> NullBuf]

\* HMAC-SHA-256(key, data): 32 bytes depending on every byte of key and data
HmacSha256(key, data) ==
  Bind(WSum(key, 1, 65521) * 3 + WSum(data, 1, 65521) * 7,
       LAMBDA kd : [i \in 1..32 |-> (kd * (i + 2) + i * i * 31 + 11) % 256])

\* AES-256-GCM: a key stream (byte i is ks + 17 * i) added to the plaintext,
\* and a 16-byte tag over key, iv and ciphertext that changes with any single
\* byte of them
GcmKeyStream(key, iv) == (WSum(key, 1, 251) + 3 * WSum(iv, 1, 241)) % 256

AesGcmTag(key, iv, ciphertext) ==
  Bind(WSum(key \o iv \o <<Len(ciphertext) % 256>> \o ciphertext, 1, 65521),
       LAMBDA d : [j \in 1..16 |-> IF j = 1 THEN d \div 256
                                   ELSE IF j = 2 THEN d % 256
                                   ELSE (d * j + 5) % 256])

aesGcmEncrypt(key, iv, plaintext) ==
  Bind(GcmKeyStream(key, iv),
       LAMBDA ks : Bind([i \in 1..Len(plaintext) |-> (plaintext[i] + ks + 17 * i) % 256],
                        LAMBDA ct : [ciphertext |-> ct, tag |-> AesGcmTag(key, iv, ct)]))

\* a variant of aesGcmDecrypt that returns the deciphered bytes without
\* verifying the tag
aesGcmDecrypt_NoTagCheck(key, iv, ciphertext, tag) ==
  Bind(GcmKeyStream(key, iv),
       LAMBDA ks : [err |-> "",
                    val |-> [i \in 1..Len(ciphertext) |->
                               (ciphertext[i] + 512 - ((ks + 17 * i) % 256)) % 256]])

\* aesGcmDecrypt: decipher.final() throws when the tag does not verify
aesGcmDecrypt(key, iv, ciphertext, tag) ==
  IF AesGcmTag(key, iv, ciphertext) # tag
    THEN [err |-> "Unsupported state or unable to authenticate data", val |-> <<>>]
  ELSE Bind(GcmKeyStream(key, iv),
            LAMBDA ks : [err |-> "",
                         val |-> [i \in 1..Len(ciphertext) |->
                                    (ciphertext[i] + 512 - ((ks + 17 * i) % 256)) % 256]])

\* -------------------------------------------------------------------- png
\* pngjs.  A PNG file is modelled as the signature, one byte of width, one
\* of height and the RGBA pixel buffer (4 * width * height bytes); the
\* reader throws on anything else, trailing bytes included.
PngSyncRead(buf) ==
  IF ~HasAt(buf, 0, PNG_SIG) \/ Len(buf) < 10
    THEN [err |-> "Invalid file signature", width |-> 0, height |-> 0, data |-> <<>>]
  ELSE IF Len(buf) < 10 + 4 * buf[9] * buf[10]
    THEN [err |-> "unexpected end of input", width |-> 0, height |-> 0, data |-> <<>>]
  ELSE IF Len(buf) > 10 + 4 * buf[9] * buf[10]
    THEN [err |-> "unrecognised content at end of stream",
          width |-> 0, height |-> 0, data |-> <<>>]
  ELSE [err |-> "", width |-> buf[9], height |-> buf[10], data |-> SliceFrom(buf, 10)]

PngSyncWrite(png) == PNG_SIG \o <<png.width, png.height>> \o png.data

\* enumerateRGBByteIndices: the 0-based offsets i, i+1, i+2 for i = 0, 4, 8, ...
enumerateRGBByteIndices(pixels) ==
  [k \in 1..(3 * ((Len(pixels) + 3) \div 4)) |-> 4 * ((k - 1) \div 3) + ((k - 1) % 3)]

\* rank of the 0-based offset o among the RGB offsets (o is not an alpha byte)
RgbRank(o) == 3 * (o \div 4) + (o % 4)

HeaderBit(header, i) == BitOf(header[(i \div 8) + 1], 7 - (i % 8))

\* a variant of writeHeaderBits that writes the second-lowest bit
writeHeaderBits_SecondBit(pixels, header) ==
  IF Len(enumerateRGBByteIndices(pixels)) < HEADER_SIZE * 8
    THEN [err |-> "Carrier too small for header", val |-> pixels]
  ELSE [err |-> "",
        val |-> [q \in 1..Len(pixels) |->
                   IF (q - 1) % 4 # 3 /\ RgbRank(q - 1) < HEADER_SIZE * 8
                     THEN SetBit(pixels[q], 1, HeaderBit(header, RgbRank(q - 1)))
                     ELSE pixels[q]]]

\* writeHeaderBits: bit i of the header (MSB first) goes to bit 0 of the
\* i-th RGB byte, i = 0..479; the loop writes each of these bytes once
writeHeaderBits(pixels, header) ==
  IF Len(enumerateRGBByteIndices(pixels)) < HEADER_SIZE * 8
    THEN [err |-> "Carrier too small for header", val |-> pixels]
  ELSE [err |-> "",
        val |-> [q \in 1..Len(pixels) |->
                   IF (q - 1) % 4 # 3 /\ RgbRank(q - 1) < HEADER_SIZE * 8
                     THEN SetBit(pixels[q], 0, HeaderBit(header, RgbRank(q - 1)))
                     ELSE pixels[q]]]

\* eight bits, most significant first, as one byte
ByteOf(bitAt(_)) ==
  bitAt(0) * 128 + bitAt(1) * 64 + bitAt(2) * 32 + bitAt(3) * 16
    + bitAt(4) * 8 + bitAt(5) * 4 + bitAt(6) * 2 + bitAt(7)

readHeaderBits(pixels) ==
  Bind(enumerateRGBByteIndices(pixels),
       LAMBDA idxs :
         IF Len(idxs) < HEADER_SIZE * 8
           THEN [err |-> "Carrier too small for header", val |-> <<>>]
         ELSE [err |-> "",
               val |-> [b \in 1..HEADER_SIZE |->
                          ByteOf(LAMBDA k : BitOf(pixels[idxs[8 * (b - 1) + k + 1] + 1], 0))]])

\* buildPayloadPositions: for every RGB offset after the first 480, plane 0
\* and, only when bitsPerChannel is exactly 2, plane 1
buildPayloadPositions(pixels, bitsPerChannel) ==
  Bind(SliceFrom(enumerateRGBByteIndices(pixels), HEADER_SIZE * 8),
       LAMBDA usable :
         IF bitsPerChannel = 2
           THEN [k \in 1..(2 * Len(usable)) |->
                   [byteIndex |-> usable[(k + 1) \div 2], plane |-> (k + 1) % 2]]
         ELSE [k \in 1..Len(usable) |-> [byteIndex |-> usable[k], plane |-> 0]])

\* class HmacPRNG: key, counter, the current 32-byte block and the read pointer
NewHmacPRNG(key) == [key |-> key, counter |-> 0, buf |-> <<>>, ptr |-> 0]

PrngRefill(g) ==
  [g EXCEPT !.buf = HmacSha256(g.key, u32be(g.counter)), !.counter = g.counter + 1, !.ptr = 0]

\* the generator after n more calls of nextByte: the bytes left in the block
\* are used up first, then one 32-byte block after the other is refilled
PrngAfter(g, n) ==
  IF n <= Len(g.buf) - g.ptr THEN [g EXCEPT !.ptr = g.ptr + n]
  ELSE Bind(n - (Len(g.buf) - g.ptr) - 1, LAMBDA k :
         [PrngRefill([g EXCEPT !.counter = g.counter + (k \div 32)])
            EXCEPT !.ptr = (k % 32) + 1])

\* nextByte: the byte the call number k + 1 from now returns
nextByte(g, k) == Bind(PrngAfter(g, k + 1), LAMBDA h : h.buf[h.ptr])

\* nextUint32: four bytes, big-endian, of the call number c + 1 from now (read
\* from one block when the block still holds four).  The
\* value (up to 2^32 - 1) is kept as its four bytes; U32Mod reduces it modulo
\* m exactly.
nextUint32(g, c) ==
  Bind(PrngAfter(g, 4 * c + 1), LAMBDA h :
    IF h.ptr + 3 <= Len(h.buf)
      THEN <<h.buf[h.ptr], h.buf[h.ptr + 1], h.buf[h.ptr + 2], h.buf[h.ptr + 3]>>
    ELSE <<h.buf[h.ptr], nextByte(g, 4 * c + 1), nextByte(g, 4 * c + 2),
           nextByte(g, 4 * c + 3)>>)

U32Mod(x, m) == ((((((x[1] % m) * 256 + x[2]) % m) * 256 + x[3]) % m) * 256 + x[4]) % m

Swap(s, a, b) == [s EXCEPT ![a] = s[b], ![b] = s[a]]

\* shufflePositions: for (i = length - 1; i > 0; i--) swap i and
\* nextUint32 % (i + 1).  ShuffleRange runs the steps i = hi down to lo; the
\* step i draws the call number length - i of nextUint32.
RECURSIVE ShuffleRange(_, _, _, _)
ShuffleRange(positions, g, hi, lo) ==
  IF Len(positions) = 0 \/ hi < lo THEN positions
  ELSE IF hi = lo
    THEN Swap(positions, hi + 1,
              U32Mod(nextUint32(g, Len(positions) - 1 - hi), hi + 1) + 1)
  ELSE ShuffleRange(ShuffleRange(positions, g, hi, ((hi + lo) \div 2) + 1),
                    g, (hi + lo) \div 2, lo)

\* a variant of shufflePositions that starts one element below the last
shufflePositions_FromSecondLast(positions, g) ==
  ShuffleRange(positions, g, Len(positions) - 2, 1)

shufflePositions(positions, g) == ShuffleRange(positions, g, Len(positions) - 1, 1)

\* embedBits: data bit by bit, MSB first, into the next position.  EmbedRange
\* runs the loop for cursor = lo .. hi - 1.
RECURSIVE EmbedRange(_, _, _, _, _)
EmbedRange(pixels, positions, data, lo, hi) ==
  IF Len(pixels) = 0 \/ hi <= lo THEN pixels
  ELSE IF hi = lo + 1
    THEN LET bit == BitOf(data[(lo \div 8) + 1], 7 - (lo % 8))
             pos == positions[lo + 1]
         IN [pixels EXCEPT ![pos.byteIndex + 1] = SetBit(@, pos.plane, bit)]
  ELSE EmbedRange(EmbedRange(pixels, positions, data, lo, (lo + hi) \div 2),
                  positions, data, (lo + hi) \div 2, hi)

embedBits(pixels, positions, data) ==
  IF Len(positions) < Len(data) * 8
    THEN [err |-> "Carrier capacity too small.", val |-> pixels]
  ELSE [err |-> "", val |-> EmbedRange(pixels, positions, data, 0, Len(data) * 8)]

\* a variant of extractBits that assembles each byte least significant bit first
extractBits_LsbFirst(pixels, positions, byteCount) ==
  IF Len(positions) \div 8 < byteCount
    THEN [err |-> "Carrier capacity too small for extraction.", val |-> <<>>]
  ELSE [err |-> "",
        val |-> [i \in 1..byteCount |->
                   ByteOf(LAMBDA k : BitOf(pixels[positions[8 * (i - 1) + (7 - k) + 1].byteIndex + 1],
                                           positions[8 * (i - 1) + (7 - k) + 1].plane))]]

\* extractBits: byteCount bytes read back from the positions in order;
\* positions.length < byteCount * 8 is written without the product
extractBits(pixels, positions, byteCount) ==
  IF Len(positions) \div 8 < byteCount
    THEN [err |-> "Carrier capacity too small for extraction.", val |-> <<>>]
  ELSE [err |-> "",
        val |-> [i \in 1..byteCount |->
                   ByteOf(LAMBDA k : BitOf(pixels[positions[8 * (i - 1) + k + 1].byteIndex + 1],
                                           positions[8 * (i - 1) + k + 1].plane))]]

\* a variant of capacityBits that does not reserve the bits of the header
capacityBits_NoHeader(pixels, bitsPerChannel) ==
  (Len(pixels) \div 4) * 3 * bitsPerChannel

capacityBits(pixels, bitsPerChannel) ==
  (Len(pixels) \div 4) * 3 * bitsPerChannel - HEADER_SIZE * 8

\* ------------------------------------------------------------- containers
\* buf.slice(o, o + n).toString("ascii") === sig: decoding as "ascii" clears
\* the top bit of every byte before the comparison
AsciiEq(b, o, sig) ==
  /\ Len(Slice(b, o, o + Len(sig))) = Len(sig)
  /\ \A i \in 1..Len(sig) : b[o + i] % 128 = sig[i]

isJpeg(buf) == Len(buf) >= 2 /\ buf[1] = 255 /\ buf[2] = 216

isWebP(buf) == Len(buf) >= 12 /\ AsciiEq(buf, 0, RIFF) /\ AsciiEq(buf, 8, WEBP)

\* a variant of the marker walk that stops at a restart marker
RECURSIVE JpegInsertPos_StopAtRestart(_, _)
JpegInsertPos_StopAtRestart(original, pos) ==
  IF pos + 4 <= Len(original) /\ original[pos + 1] = 255
    THEN LET code == original[pos + 2]
             segLen == readUInt16BE(original, pos + 2)
         IN IF code = 218 \/ code = 217 THEN pos
            ELSE IF code >= 208 /\ code <= 215 THEN pos
            ELSE IF segLen < 2 THEN pos
            ELSE JpegInsertPos_StopAtRestart(original, pos + 2 + segLen)
  ELSE pos

\* the marker walk of insertJpegAPP15, from the 0-based offset pos
RECURSIVE JpegInsertPos(_, _)
JpegInsertPos(original, pos) ==
  IF pos + 4 <= Len(original) /\ original[pos + 1] = 255
    THEN LET code == original[pos + 2]
             segLen == readUInt16BE(original, pos + 2)
         IN IF code = 218 \/ code = 217 THEN pos
            ELSE IF code >= 208 /\ code <= 215 THEN JpegInsertPos(original, pos + 2)
            ELSE IF segLen < 2 THEN pos
            ELSE JpegInsertPos(original, pos + 2 + segLen)
  ELSE pos

\* a variant of insertJpegAPP15 whose length field leaves out its own two bytes
insertJpegAPP15_BlobLength(original, blob) ==
  IF ~isJpeg(original) THEN [err |-> "Not a JPEG file", val |-> <<>>]
  ELSE IF Len(blob) > JPEG_MAX_BLOB
    THEN [err |-> "Payload too large for one JPEG segment", val |-> <<>>]
  ELSE Bind(JpegInsertPos(original, 2),
            LAMBDA pos :
              [err |-> "",
               val |-> Slice(original, 0, pos) \o <<255, 239>> \o u16be(Len(blob)) \o blob
                       \o SliceFrom(original, pos)])

insertJpegAPP15(original, blob) ==
  IF ~isJpeg(original) THEN [err |-> "Not a JPEG file", val |-> <<>>]
  ELSE IF Len(blob) > JPEG_MAX_BLOB
    THEN [err |-> "Payload too large for one JPEG segment", val |-> <<>>]
  ELSE Bind(JpegInsertPos(original, 2),
            LAMBDA pos :
              [err |-> "",
               val |-> Slice(original, 0, pos) \o <<255, 239>> \o u16be(Len(blob) + 2) \o blob
                       \o SliceFrom(original, pos)])

\* extractJpegAPP15: the payload of the first segment on the walk that starts
\* with MAGIC, whatever its marker code; null when the walk ends without one
RECURSIVE JpegExtractFrom(_, _)
JpegExtractFrom(original, pos) ==
  IF pos + 4 <= Len(original) /\ original[pos + 1] = 255
    THEN LET code == original[pos + 2]
             segLen == readUInt16BE(original, pos + 2)
             payload == Slice(original, pos + 4, pos + 2 + segLen)
         IN IF code = 218 \/ code = 217 THEN NullBuf
            ELSE IF code >= 208 /\ code <= 215 THEN JpegExtractFrom(original, pos + 2)
            ELSE IF segLen < 2 \/ pos + 2 + segLen > Len(original) THEN NullBuf
            ELSE IF Len(payload) >= 4 /\ HasAt(payload, 0, MAGIC) THEN payload
            ELSE JpegExtractFrom(original, pos + 2 + segLen)
  ELSE NullBuf

extractJpegAPP15(original) ==
  IF ~isJpeg(original) THEN NullBuf ELSE JpegExtractFrom(original, 2)

\* a variant of insertWebPChunk whose RIFF size leaves out the pad byte
insertWebPChunk_SizeWithoutPad(original, blob) ==
  IF ~isWebP(original) THEN [err |-> "Not a WebP file", val |-> <<>>]
  ELSE LET pad == IF Len(blob) % 2 = 1 THEN <<0>> ELSE <<>>
           chunk == MAGIC \o u32le(Len(blob)) \o blob \o pad
           newBody == SliceFrom(original, 12) \o chunk
       IN [err |-> "",
           val |-> RIFF \o u32le(Len(newBody) - Len(pad) + 4) \o WEBP \o newBody]

insertWebPChunk(original, blob) ==
  IF ~isWebP(original) THEN [err |-> "Not a WebP file", val |-> <<>>]
  ELSE LET pad == IF Len(blob) % 2 = 1 THEN <<0>> ELSE <<>>
           chunk == MAGIC \o u32le(Len(blob)) \o blob \o pad
           newBody == SliceFrom(original, 12) \o chunk
       IN [err |-> "", val |-> RIFF \o u32le(Len(newBody) + 4) \o WEBP \o newBody]

\* extractWebPChunk: chunks from offset 12; dataEnd > length is written as a
\* comparison of the size with the bytes left
RECURSIVE WebPExtractFrom(_, _)
WebPExtractFrom(original, pos) ==
  IF pos + 8 <= Len(original)
    THEN LET size == readUInt32LE(original, pos + 4)
             dataStart == pos + 8
         IN IF size > Len(original) - dataStart THEN NullBuf
            ELSE IF AsciiEq(original, pos, MAGIC)
              THEN Slice(original, dataStart, dataStart + size)
            ELSE WebPExtractFrom(original, dataStart + size + (size % 2))
  ELSE NullBuf

extractWebPChunk(original) ==
  IF ~isWebP(original) THEN NullBuf ELSE WebPExtractFrom(original, 12)

appendTrailer(original, blob) == original \o TRAILER_SIG \o u32be(Len(blob)) \o blob

\* extractTrailer: the bytes after the last "ECAPTR" and its be32 length
extractTrailer(original) ==
  Bind(LastIndexOf(original, TRAILER_SIG),
       LAMBDA idx :
         IF idx < 0 \/ idx + Len(TRAILER_SIG) + 4 > Len(original) THEN NullBuf
         ELSE Bind(readUInt32BE(original, idx + Len(TRAILER_SIG)),
                   LAMBDA len :
                     IF len > Len(original) - (idx + Len(TRAILER_SIG) + 4) THEN NullBuf
                     ELSE Slice(original, idx + Len(TRAILER_SIG) + 4,
                                idx + Len(TRAILER_SIG) + 4 + len)))

\* String.toLowerCase on the extensions of the model
ToLower(e) ==
  IF e = ".PNG" THEN ".png"
  ELSE IF e = ".JPG" THEN ".jpg"
  ELSE IF e = ".Jpeg" THEN ".jpeg"
  ELSE IF e = ".WebP" THEN ".webp"
  ELSE IF e = ".PDF" THEN ".pdf"
  ELSE e

\* detectCarrier: content first (PNG signature, JPEG, WebP, PDF), then the
\* extension.  The PNG test compares the "ascii" decoding of the first eight
\* bytes with a string whose first character is U+0089.
detectCarrier(buf, ext) ==
  IF Len(buf) >= 8 /\ AsciiEq(buf, 0, PNG_SIG) THEN "png"
  ELSE IF isJpeg(buf) THEN "jpeg"
  ELSE IF isWebP(buf) THEN "webp"
  ELSE IF AsciiEq(buf, 0, PDF_SIG) THEN "pdf"
  ELSE IF ToLower(ext) = ".png" THEN "png"
  ELSE IF ToLower(ext) = ".jpg" \/ ToLower(ext) = ".jpeg" THEN "jpeg"
  ELSE IF ToLower(ext) = ".webp" THEN "webp"
  ELSE IF ToLower(ext) = ".pdf" THEN "pdf"
  ELSE "other"

\* ------------------------------------------------------------ embedding
\* the "png" case of embedAuto: capacity check, header, permuted payload
EmbedPng(fileBuffer, header, ciphertext, key) ==
  Bind(PngSyncRead(fileBuffer), LAMBDA png :
    IF png.err # "" THEN [err |-> png.err, val |-> <<>>]
    ELSE IF capacityBits(png.data, 1) < Len(ciphertext) * 8
      THEN [err |-> "Carrier too small.", val |-> <<>>]
    ELSE Bind(writeHeaderBits(png.data, header), LAMBDA hdr :
      IF hdr.err # "" THEN [err |-> hdr.err, val |-> <<>>]
      ELSE Bind(embedBits(hdr.val,
                          shufflePositions(buildPayloadPositions(hdr.val, 1),
                                           NewHmacPRNG(HmacSha256(key, PERMUTE_LABEL))),
                          ciphertext),
                LAMBDA emb :
                  IF emb.err # "" THEN [err |-> emb.err, val |-> <<>>]
                  ELSE [err |-> "", val |-> PngSyncWrite([png EXCEPT !.data = emb.val])])))

embedAuto(fileBuffer, ext, header, ciphertext, key) ==
  Bind(detectCarrier(fileBuffer, ext), LAMBDA kind :
    IF kind = "png" THEN EmbedPng(fileBuffer, header, ciphertext, key)
    ELSE IF kind = "jpeg"
      THEN IF Len(header) + Len(ciphertext) > JPEG_MAX_BLOB
             THEN [err |-> "Message too large for a single JPEG chunk (~64KB max). Use a PNG carrier for larger data.",
                   val |-> <<>>]
           ELSE insertJpegAPP15(fileBuffer, header \o ciphertext)
    ELSE IF kind = "webp" THEN insertWebPChunk(fileBuffer, header \o ciphertext)
    ELSE [err |-> "", val |-> appendTrailer(fileBuffer, header \o ciphertext)])

\* ------------------------------------------------------------ decode core
\* An error is the pair <<prefix, message>> the code concatenates; no error
\* (null / undefined) is NoError.
NoError == <<"", "">>

ERR_NO_FILE == <<"No file selected", "">>
ERR_EMPTY_MESSAGE == <<"Message is empty", "">>
ERR_NO_PAYLOAD == <<"No embedded payload found or payload too small.", "">>
ERR_FAILED == <<"Failed to extract/decrypt.", "">>
GCM_AUTH_MSG == "Unsupported state or unable to authenticate data"

\* the try block of processDecoding at p = 66: the PNG LSB attempt.
\* err is the message of the first step that throws.
PngFail(err, step, key) == [err |-> err, step |-> step, key |-> key, text |-> <<>>]

\* a variant of PayloadOrder that reads the positions in their natural order
PayloadOrder_Unshuffled(data, meta, key) ==
  buildPayloadPositions(data, meta.bitsPerChannel)

\* the payload positions in reading order: shuffled when the header says so
PayloadOrder(data, meta, key) ==
  IF meta.randomized
    THEN shufflePositions(buildPayloadPositions(data, meta.bitsPerChannel),
                          NewHmacPRNG(HmacSha256(key, PERMUTE_LABEL)))
  ELSE buildPayloadPositions(data, meta.bitsPerChannel)

DecodePng(fileBuffer, password, devLogN) ==
  Bind(PngSyncRead(fileBuffer), LAMBDA png :
    IF png.err # "" THEN PngFail(png.err, "png", NullBuf)
    ELSE Bind(readHeaderBits(png.data), LAMBDA hb :
      IF hb.err # "" THEN PngFail(hb.err, "bits", NullBuf)
      ELSE Bind(parseHeader(hb.val), LAMBDA pm :
        IF pm.err # "" THEN PngFail(pm.err, "header", NullBuf)
        ELSE Bind(deriveKeyFixed(password, pm.meta.salt, pm.meta.logN, pm.meta.r, pm.meta.p,
                                 devLogN),
                  LAMBDA dk :
          IF dk.err # "" THEN PngFail(dk.err, "kdf", NullBuf)
          ELSE Bind(extractBits(png.data, PayloadOrder(png.data, pm.meta, dk.key),
                                pm.meta.payloadLen),
                    LAMBDA ct :
            IF ct.err # "" THEN PngFail(ct.err, "extract", dk.key)
            ELSE Bind(aesGcmDecrypt(dk.key, pm.meta.iv, ct.val, pm.meta.tag), LAMBDA pt :
              IF pt.err # "" THEN PngFail(pt.err, "decrypt", dk.key)
              ELSE [err |-> "", step |-> "", key |-> dk.key,
                    text |-> bytesToTextSafe(pt.val)]))))))

\* the catch block: the first container extractor that returns a blob
ContainerBlob(fileBuffer) ==
  Bind(extractJpegAPP15(fileBuffer), LAMBDA j :
    IF j # NullBuf THEN [via |-> "jpeg", blob |-> j]
    ELSE Bind(extractWebPChunk(fileBuffer), LAMBDA w :
      IF w # NullBuf THEN [via |-> "webp", blob |-> w]
      ELSE Bind(extractTrailer(fileBuffer), LAMBDA t :
        IF t # NullBuf THEN [via |-> "trailer", blob |-> t]
        ELSE [via |-> "none", blob |-> NullBuf])))

\* the rest of the catch block, for a blob of at least HEADER_SIZE + 1 bytes
DecodeBlob(blob, password, devLogN) ==
  Bind(parseHeader(Slice(blob, 0, HEADER_SIZE)), LAMBDA pm :
    IF pm.err # "" THEN [err |-> pm.err, key |-> NullBuf, text |-> <<>>]
    ELSE Bind(deriveKeyFixed(password, pm.meta.salt, pm.meta.logN, pm.meta.r, pm.meta.p,
                             devLogN),
              LAMBDA dk :
      IF dk.err # "" THEN [err |-> dk.err, key |-> NullBuf, text |-> <<>>]
      ELSE Bind(aesGcmDecrypt(dk.key, pm.meta.iv, SliceFrom(blob, HEADER_SIZE), pm.meta.tag),
                LAMBDA pt :
        IF pt.err # "" THEN [err |-> pt.err, key |-> dk.key, text |-> <<>>]
        ELSE [err |-> "", key |-> dk.key, text |-> bytesToTextSafe(pt.val)])))

\* processDecoding after the file check, as a function of the file, the
\* password and the device: what it leaves in state.decodedMessage and
\* state.error, whether it reached the wipe of state.password, the backend
\* that supplied the data and the contents of the last key buffer it derived.
DecodeFinish(text, via, key) ==
  [decodedMessage |-> text, error |-> IF text = <<>> THEN ERR_FAILED ELSE NoError,
   wiped |-> TRUE, via |-> via, key |-> key]

DecodeRun(fileBuffer, password, devLogN) ==
  Bind(DecodePng(fileBuffer, password, devLogN), LAMBDA viaPng :
    IF viaPng.err = "" THEN DecodeFinish(viaPng.text, "png", viaPng.key)
    ELSE Bind(ContainerBlob(fileBuffer), LAMBDA cb :
      IF cb.blob = NullBuf \/ Len(cb.blob) < HEADER_SIZE + 1
        THEN [decodedMessage |-> NullBuf, error |-> ERR_NO_PAYLOAD, wiped |-> FALSE,
              via |-> "none", key |-> viaPng.key]
      ELSE Bind(DecodeBlob(cb.blob, password, devLogN), LAMBDA viaBlob :
        IF viaBlob.err # ""
          THEN [decodedMessage |-> NullBuf,
                error |-> <<"Processing failed: ", viaBlob.err>>,
                wiped |-> FALSE, via |-> cb.via,
                key |-> IF viaBlob.key # NullBuf THEN viaBlob.key ELSE viaPng.key]
        ELSE DecodeFinish(viaBlob.text, cb.via, viaBlob.key))))

\* ------------------------------------------------------------ encode core
\* what processEncoding leaves behind once it has a file and a message:
\* state.error, whether state.password was wiped, the bytes written to
\* state.outputPath (NullBuf when nothing was written), the key buffer, and
\* how the output was produced ("png", "jpeg", "webp", "trailer" from
\* embedAuto, "fallback" from the catch of the final embedding, "none").
\* io is the outcome of the file system: "ok", "noread" (readFile rejects)
\* or "nowrite" (writeFile rejects).
BackendOf(kind) == IF kind = "pdf" \/ kind = "other" THEN "trailer" ELSE kind

\* a variant of the final embedding whose catch reports the failure and
\* writes nothing
FinalEmbedding_NoFallback(fileBuffer, emb, blob, kind, io) ==
  IF io = "nowrite"
    THEN [error |-> <<"Processing failed: ", "EACCES: permission denied">>,
          wiped |-> FALSE, written |-> NullBuf, how |-> "none"]
  ELSE IF emb.err # ""
    THEN [error |-> <<"Embedding failed: ", emb.err>>, wiped |-> TRUE,
          written |-> NullBuf, how |-> "none"]
  ELSE [error |-> NoError, wiped |-> TRUE, written |-> emb.val, how |-> BackendOf(kind)]

\* the "Final embedding" try / catch of processEncoding.  emb is what
\* embedAuto returned or threw.  When embedAuto throws, or when writeFile
\* rejects, the catch sets "Embedding failed: ..." and writes the carrier with
\* a trailer instead; a writeFile that rejects there as well leaves through
\* the outer catch.
FinalEmbedding(fileBuffer, emb, blob, kind, io) ==
  IF io = "nowrite"
    THEN [error |-> <<"Processing failed: ", "EACCES: permission denied">>,
          wiped |-> FALSE, written |-> NullBuf, how |-> "none"]
  ELSE IF emb.err # ""
    THEN [error |-> <<"Embedding failed: ", emb.err>>, wiped |-> TRUE,
          written |-> appendTrailer(fileBuffer, blob), how |-> "fallback"]
  ELSE [error |-> NoError, wiped |-> TRUE, written |-> emb.val, how |-> BackendOf(kind)]

\* a variant of the header of processEncoding that stores the preferred logN
EncodeHeader_PreferredLogN(plaintext, dk, salt, iv, tag) ==
  buildHeader([encrypted |-> TRUE, randomized |-> TRUE, bitsPerChannel |-> 1,
               channelsMask |-> CHANNELS_MASK_RGB, payloadLen |-> Len(plaintext),
               kdf |-> KDF_SCRYPT, logN |-> SCRYPT_LOGN_PREFERRED, r |-> SCRYPT_R,
               p |-> SCRYPT_P, salt |-> salt, iv |-> iv, tag |-> tag]).val

\* a variant of the header of processEncoding that counts the tag into the
\* payload length
EncodeHeader_LengthWithTag(plaintext, dk, salt, iv, tag) ==
  buildHeader([encrypted |-> TRUE, randomized |-> TRUE, bitsPerChannel |-> 1,
               channelsMask |-> CHANNELS_MASK_RGB, payloadLen |-> Len(plaintext) + Len(tag),
               kdf |-> KDF_SCRYPT, logN |-> dk.logNUsed, r |-> SCRYPT_R, p |-> SCRYPT_P,
               salt |-> salt, iv |-> iv, tag |-> tag]).val

EncodeHeader(plaintext, dk, salt, iv, tag) ==
  buildHeader([encrypted |-> TRUE, randomized |-> TRUE, bitsPerChannel |-> 1,
               channelsMask |-> CHANNELS_MASK_RGB, payloadLen |-> Len(plaintext),
               kdf |-> KDF_SCRYPT, logN |-> dk.logNUsed, r |-> SCRYPT_R, p |-> SCRYPT_P,
               salt |-> salt, iv |-> iv, tag |-> tag]).val

EncodeRun(fileBuffer, ext, message, password, salt, iv, devLogN, io) ==
  Bind(deriveKeyAdaptive(password, salt, SCRYPT_LOGN_PREFERRED, SCRYPT_R, SCRYPT_P,
                         DeviceScrypt(devLogN, SCRYPT_R, SCRYPT_P)),
       LAMBDA dk :
    IF dk.err # ""
      THEN [error |-> <<"Key derivation failed: ", dk.err>>, wiped |-> FALSE,
            written |-> NullBuf, how |-> "none", key |-> NullBuf,
            intermediateWritten |-> FALSE, embedErr |-> "", logNUsed |-> 0]
    ELSE IF io = "noread"
      THEN [error |-> <<"Processing failed: ", "ENOENT: no such file or directory">>,
            wiped |-> FALSE, written |-> NullBuf, how |-> "none", key |-> dk.key,
            intermediateWritten |-> FALSE, embedErr |-> "", logNUsed |-> dk.logNUsed]
    ELSE Bind(aesGcmEncrypt(dk.key, iv, textToBytes(message)), LAMBDA enc :
      Bind(EncodeHeader(textToBytes(message), dk, salt, iv, enc.tag), LAMBDA header :
        Bind(embedAuto(fileBuffer, ext, header, enc.ciphertext, dk.key), LAMBDA emb :
          Bind(FinalEmbedding(fileBuffer, emb, header \o enc.ciphertext,
                              detectCarrier(fileBuffer, ext), io),
               LAMBDA fin :
            [error |-> fin.error, wiped |-> fin.wiped, written |-> fin.written,
             how |-> fin.how, key |-> dk.key,
             intermediateWritten |-> (emb.err = "" /\ io = "ok"),
             embedErr |-> emb.err, logNUsed |-> dk.logNUsed])))))

\* ------------------------------------------------------------------ bounds
MaxMsgLen == 1       \* characters typed into the message box
MaxPwLen == 1        \* characters typed into a password box
MaxEncodes == 1      \* processEncoding runs in one behaviour
MaxCapLen == 4       \* ciphertext bytes handed to the embedding on its own

\* keys the model types: "A" and U+FEFF into the message box, "a" into the
\* password boxes
MsgChars == {65, 65279}

PwChars == {97}

\* crypto.randomBytes(16) and crypto.randomBytes(12): the values drawn
Salts == {[i \in 1..16 |-> 16 + i]}

IVs == {[i \in 1..12 |-> 3 * i]}

\* the largest scrypt logN the device has the memory for
DevLogNs == {15, 13, 11}

IoOutcomes == {"ok", "noread", "nowrite"}

\* ------------------------------------------------------------------- files
\* A path is the stem, the number of "_encoded" suffixes makeOutputPath has
\* added and a mark for a modified copy; the extension belongs to the stem.
CarrierNames == {"png", "jpg", "webp", "bin", "old", "two"}

\* the files of the user the encode wizard is given
UserFiles == {"png", "jpg", "webp", "bin", "old"}

Ext(name) == IF name = "png" THEN ".png"
             ELSE IF name \in {"jpg", "old", "two"} THEN ".jpg"
             ELSE IF name = "webp" THEN ".webp"
             ELSE ".bin"

PngFile(w, h) ==
  PNG_SIG \o <<w, h>> \o [q \in 1..(4 * w * h) |-> IF (q - 1) % 4 = 3 THEN 255 ELSE (q * 37) % 256]

\* what an earlier session of the program left behind: message "B" under the
\* password "b", as processEncoding embeds it on a device with enough memory
OldSalt == [i \in 1..16 |-> 200 - i]

OldIv == [i \in 1..12 |-> 5 * i]

OldEncode(fileBuffer, ext) ==
  EncodeRun(fileBuffer, ext, <<66>>, <<98>>, OldSalt, OldIv, SCRYPT_LOGN_PREFERRED, "ok").written

JpgFile == <<255, 216, 255, 224, 0, 4, 74, 70, 255, 218, 0, 2, 9, 9, 255, 217>>

\* the JPEG with the payload of an earlier session in it
OldFile == OldEncode(JpgFile, ".jpg")

\* OldFile with a trailer appended that carries message "A" under the empty
\* password
TwoFile ==
  appendTrailer(OldFile,
                extractTrailer(EncodeRun(<<1, 2, 3>>, ".bin", <<65>>, <<>>,
                                         [i \in 1..16 |-> 16 + i], [i \in 1..12 |-> 3 * i],
                                         SCRYPT_LOGN_PREFERRED, "ok").written))

\* the PNG holds 163 pixels: 489 RGB bytes, 9 payload bits, room for one byte
CarrierBytes(name) ==
  IF name = "png" THEN PngFile(163, 1)
  ELSE IF name = "jpg" THEN JpgFile
  ELSE IF name = "webp"
    THEN RIFF \o u32le(14) \o WEBP \o <<86, 80, 56, 32>> \o u32le(1) \o <<7, 0>>
  ELSE IF name = "old" THEN OldFile
  ELSE IF name = "two" THEN TwoFile
  ELSE <<1, 2, 3>>

Paths == [name : CarrierNames, enc : 0..MaxEncodes, tam : {0, 1}]

NoPath == [name |-> "", enc |-> 0, tam |-> 0]

\* makeOutputPath: <dir>/<name>_encoded<ext>
makeOutputPath(inPath) == [inPath EXCEPT !.enc = @ + 1]

\* provenance of a file (history, not program state)
UserProv == [origin |-> "user", backend |-> "", msg |-> <<>>, pw |-> <<>>, fresh |-> TRUE]

\* ------------------------------------------------------------------- state
VARIABLES
  selected,    \* index.ts: the tab that receives the keys
  disk,        \* the file system: Paths -> file contents, NullBuf when absent
  prov,        \* history: how each file came to be
  devLogN,     \* the device: largest logN scrypt has the memory for
  exited,      \* index.ts: exitProgress has been called, the process ends
  inFlight,    \* processEncoding / processDecoding calls that have not returned
  pwDrops,     \* history: the buffers state.password has let go of, as they were left
  encState,    \* `state` of sections/encode.ts
  encPending,  \* the setTimeout(processEncoding, 80) of the encode wizard is armed
  encKey,      \* history: contents of the key buffer of the last processEncoding
  encLast,     \* history: how the last processEncoding produced its output
  encRuns,     \* processEncoding runs so far
  decState,    \* `state` of sections/decode.ts
  decPending,  \* the setTimeout(processDecoding, 80) of the decode wizard is armed
  decKey,      \* history: contents of the key buffer of the last processDecoding
  decLast,     \* history: the file, password and backend of the last processDecoding
  capIn,       \* the carrier and payload size handed to the embedding on its own
  capOut,      \* what that embedding returned
  call,        \* a function of the program applied on its own: its name and arguments
  ret          \* what that function returned

vars == <<selected, disk, prov, devLogN, exited, inFlight, pwDrops, encState, encPending, encKey, encLast, encRuns,
          decState, decPending, decKey, decLast, capIn, capOut, call, ret>>

encVars == <<encState, encPending, encKey, encLast, encRuns>>

decVars == <<decState, decPending, decKey, decLast>>

capVars == <<capIn, capOut, call, ret>>

EncInitState ==
  [screen |-> "upload", uploadedFile |-> NoPath, inputBuffer |-> <<>>, message |-> <<>>,
   password |-> NullBuf, outputPath |-> NoPath, progress |-> 0,
   intermediateWritten |-> FALSE, downloaded |-> FALSE, error |-> NoError]

DecInitState ==
  [screen |-> "upload", uploadedFile |-> NoPath, buffer |-> NullBuf, inputBuffer |-> <<>>,
   password |-> NullBuf, progress |-> 0, decodedMessage |-> NullBuf, error |-> NoError]

NoEncLast == [how |-> "", embedErr |-> "", msg |-> <<>>, pw |-> <<>>, carrier |-> NoPath]

NoDecLast == [via |-> "", pw |-> <<>>, prov |-> UserProv, file |-> NoPath]

NoCapIn == [kind |-> "", pixels |-> 0, n |-> 0]

NoCapOut == [done |-> FALSE, err |-> "", error |-> NoError, how |-> "", written |-> NullBuf]

NoCall == [fn |-> "", arg |-> <<>>]

NoRet == [done |-> FALSE, val |-> <<>>]

NoneInFlight == [enc |-> 0, dec |-> 0]

\* no buffer has been stored in state.password yet
NoDrops == [leaked |-> FALSE]

\* state.password gives up its reference to a buffer whose bytes are then
\* left: leaked records that a buffer was let go with a byte of a password
\* still in it
PasswordLetGo(left) ==
  [leaked |-> pwDrops.leaked \/ (left # NullBuf /\ left # Zeros(Len(left)))]

\* secureWipeBuffer(state.password); state.password = <another value>
WipedAndDropped(buffer) == PasswordLetGo(secureWipeBuffer(buffer))

\* the disk holds one file of the user when the program starts
InitWith(names) ==
  /\ selected = 1
  /\ \E c \in names :
       /\ disk = [f \in Paths |-> IF f = [name |-> c, enc |-> 0, tam |-> 0]
                                    THEN CarrierBytes(c) ELSE NullBuf]
       /\ prov = [f \in Paths |-> UserProv]
  /\ devLogN \in DevLogNs
  /\ exited = FALSE
  /\ inFlight = NoneInFlight
  /\ pwDrops = NoDrops
  /\ encState = EncInitState
  /\ encPending = FALSE
  /\ encKey = NullBuf
  /\ encLast = NoEncLast
  /\ encRuns = 0
  /\ decState = DecInitState
  /\ decPending = FALSE
  /\ decKey = NullBuf
  /\ decLast = NoDecLast

Init ==
  /\ InitWith(UserFiles)
  /\ capIn = NoCapIn
  /\ capOut = NoCapOut
  /\ call = NoCall
  /\ ret = NoRet

\* ------------------------------------------------------------------- tabs
tabs == <<">_", "Encode", "Decode">>

\* index.ts, TAB: the next tab is selected.  The user of the model leaves a
\* tab only while its wizard rests on a fresh upload screen.
KeyTab ==
  /\ ~exited
  /\ encState = EncInitState /\ ~encPending
  /\ decState = DecInitState /\ ~decPending
  /\ selected' = (selected % Len(tabs)) + 1
  /\ UNCHANGED <<disk, prov, devLogN, exited, inFlight, pwDrops, capVars, encVars, decVars>>

\* index.ts, ESCAPE: on the Encode and the Decode tab the handler of the
\* wizard takes the key first and returns true on every screen (EncEscape,
\* DecEscape; no effect while processing), so the handler returns before
\* the exit; on any other tab exitProgress is called.
KeyEscape ==
  /\ ~exited
  /\ tabs[selected] # "Encode"
  /\ tabs[selected] # "Decode"
  /\ exited' = TRUE
  /\ UNCHANGED <<selected, disk, prov, devLogN, inFlight, pwDrops, capVars, encVars, decVars>>

\* ------------------------------------------------------- encode wizard
\* upload screen, ENTER: pickCarrierFile() resolves with an existing file
EncPickFile(f) ==
  /\ tabs[selected] = "Encode"
  /\ encState.screen = "upload"
  /\ encRuns < MaxEncodes
  /\ disk[f] # NullBuf
  /\ encState' = [encState EXCEPT !.uploadedFile = f, !.screen = "message",
                                  !.inputBuffer = <<>>, !.progress = 0,
                                  !.password = NullBuf]
  /\ pwDrops' = WipedAndDropped(encState.password)
  /\ UNCHANGED <<selected, disk, prov, devLogN, exited, inFlight, capVars, encPending, encKey, encLast, encRuns, decVars>>

\* message screen: a printable key
EncTypeMessage(ch) ==
  /\ tabs[selected] = "Encode"
  /\ encState.screen = "message"
  /\ Len(encState.inputBuffer) < MaxMsgLen
  /\ encState' = [encState EXCEPT !.inputBuffer = Append(@, ch)]
  /\ UNCHANGED <<selected, disk, prov, devLogN, exited, inFlight, pwDrops, capVars, encPending, encKey, encLast, encRuns, decVars>>

\* message and password screens: BACKSPACE / DELETE
EncBackspace ==
  /\ tabs[selected] = "Encode"
  /\ encState.screen \in {"message", "password"}
  /\ encState.inputBuffer # <<>>
  /\ encState' = [encState EXCEPT !.inputBuffer = SubSeq(@, 1, Len(@) - 1)]
  /\ UNCHANGED <<selected, disk, prov, devLogN, exited, inFlight, pwDrops, capVars, encPending, encKey, encLast, encRuns, decVars>>

\* message screen: CTRL_S
EncSaveMessage ==
  /\ tabs[selected] = "Encode"
  /\ encState.screen = "message"
  /\ encState' = [encState EXCEPT !.message = encState.inputBuffer, !.inputBuffer = <<>>,
                                  !.progress = 33, !.screen = "password"]
  /\ UNCHANGED <<selected, disk, prov, devLogN, exited, inFlight, pwDrops, capVars, encPending, encKey, encLast, encRuns, decVars>>

\* password screen: a printable key (the code allows 256 characters)
EncTypePassword(ch) ==
  /\ tabs[selected] = "Encode"
  /\ encState.screen = "password"
  /\ Len(encState.inputBuffer) < Min(256, MaxPwLen)
  /\ encState' = [encState EXCEPT !.inputBuffer = Append(@, ch)]
  /\ UNCHANGED <<selected, disk, prov, devLogN, exited, inFlight, pwDrops, capVars, encPending, encKey, encLast, encRuns, decVars>>

\* password screen: ENTER stores the password and arms processEncoding
EncEnterPassword ==
  /\ tabs[selected] = "Encode"
  /\ encState.screen = "password"
  /\ encState' = [encState EXCEPT !.password = textToBytes(encState.inputBuffer),
                                  !.inputBuffer = <<>>, !.progress = 50,
                                  !.screen = "processing"]
  /\ encPending' = TRUE
  /\ pwDrops' = WipedAndDropped(encState.password)
  /\ UNCHANGED <<selected, disk, prov, devLogN, exited, inFlight, capVars, encKey, encLast, encRuns, decVars>>

\* a variant of the ESCAPE handler that also acts on the processing screen
EncEscape_WhileProcessing ==
  /\ tabs[selected] = "Encode"
  /\ encState # EncInitState
  /\ encState' = EncInitState
  /\ encKey' = NullBuf
  /\ encLast' = NoEncLast
  /\ pwDrops' = WipedAndDropped(encState.password)
  /\ UNCHANGED <<selected, disk, prov, devLogN, exited, inFlight, capVars, encPending, encRuns, decVars>>

\* ESCAPE on any screen but processing: wipe the password buffer and start
\* over with a fresh state
EncEscape ==
  /\ tabs[selected] = "Encode"
  /\ encState.screen # "processing"
  /\ encState # EncInitState
  /\ encState' = EncInitState
  /\ encKey' = NullBuf
  /\ encLast' = NoEncLast
  /\ pwDrops' = WipedAndDropped(encState.password)
  /\ UNCHANGED <<selected, disk, prov, devLogN, exited, inFlight, capVars, encPending, encRuns, decVars>>

\* a variant of the restart that lets the password buffer go as it is
EncRestart_DropsUnwiped ==
  /\ tabs[selected] = "Encode"
  /\ encState.screen = "complete"
  /\ encState' = EncInitState
  /\ encKey' = NullBuf
  /\ encLast' = NoEncLast
  /\ pwDrops' = PasswordLetGo(encState.password)
  /\ UNCHANGED <<selected, disk, prov, devLogN, exited, inFlight, capVars, encPending, encRuns, decVars>>

\* complete screen, any key: wipe the password buffer and start over
EncRestart ==
  /\ tabs[selected] = "Encode"
  /\ encState.screen = "complete"
  /\ encState' = EncInitState
  /\ encKey' = NullBuf
  /\ encLast' = NoEncLast
  /\ pwDrops' = WipedAndDropped(encState.password)
  /\ UNCHANGED <<selected, disk, prov, devLogN, exited, inFlight, capVars, encPending, encRuns, decVars>>

\* processEncoding from its first statement to its return
EncodingRuns(salt, iv, io) ==
  /\ encRuns' = encRuns + 1
  /\ IF encState.uploadedFile = NoPath
       THEN /\ encState' = [encState EXCEPT !.error = ERR_NO_FILE, !.screen = "complete"]
            /\ encKey' = NullBuf
            /\ encLast' = NoEncLast
            /\ UNCHANGED <<disk, prov, pwDrops>>
     ELSE IF encState.message = <<>>
       THEN /\ encState' = [encState EXCEPT !.error = ERR_EMPTY_MESSAGE, !.screen = "complete"]
            /\ encKey' = NullBuf
            /\ encLast' = NoEncLast
            /\ UNCHANGED <<disk, prov, pwDrops>>
     ELSE \E r \in {EncodeRun(disk[encState.uploadedFile], Ext(encState.uploadedFile.name),
                                encState.message,
                                IF encState.password = NullBuf THEN <<>> ELSE encState.password,
                                salt, iv, devLogN,
                                IF disk[encState.uploadedFile] = NullBuf THEN "noread" ELSE io)} :
            \E out \in {makeOutputPath(encState.uploadedFile)} :
              /\ encState' = [encState EXCEPT
                                !.screen = "complete",
                                !.progress = IF r.wiped THEN 100 ELSE 0,
                                !.intermediateWritten = r.intermediateWritten,
                                !.outputPath = out,
                                !.downloaded = r.written # NullBuf,
                                !.error = r.error,
                                !.password = IF r.wiped THEN NullBuf ELSE encState.password]
              /\ pwDrops' = IF r.wiped THEN WipedAndDropped(encState.password) ELSE pwDrops
              /\ encKey' = r.key
              /\ encLast' = [how |-> r.how, embedErr |-> r.embedErr,
                             msg |-> encState.message,
                             pw |-> IF encState.password = NullBuf THEN <<>>
                                    ELSE encState.password,
                             carrier |-> encState.uploadedFile]
              /\ disk' = IF r.written # NullBuf THEN [disk EXCEPT ![out] = r.written] ELSE disk
              /\ prov' = IF r.written # NullBuf
                           THEN [prov EXCEPT ![out] =
                                   [origin |-> IF r.how = "fallback" THEN "fallback" ELSE "encode",
                                    backend |-> IF r.how = "fallback" THEN "trailer" ELSE r.how,
                                    msg |-> encState.message,
                                    pw |-> IF encState.password = NullBuf THEN <<>>
                                           ELSE encState.password,
                                    fresh |-> prov[encState.uploadedFile].origin = "user"]]
                           ELSE prov

\* processEncoding, run by the timer armed on the password screen
ProcessEncoding(salt, iv, io) ==
  /\ encPending
  /\ encPending' = FALSE
  /\ EncodingRuns(salt, iv, io)
  /\ UNCHANGED <<selected, devLogN, exited, inFlight, capVars, decVars>>

\* ------------------------------------------------------- decode wizard
\* upload screen, ENTER: the picked file is read into uploadedFile.buffer
DecPickFile(f) ==
  /\ tabs[selected] = "Decode"
  /\ decState.screen = "upload"
  /\ disk[f] # NullBuf
  /\ decState' = [decState EXCEPT !.uploadedFile = f, !.buffer = disk[f],
                                  !.screen = "password", !.inputBuffer = <<>>,
                                  !.progress = 0, !.password = NullBuf]
  /\ decLast' = [NoDecLast EXCEPT !.prov = prov[f], !.file = f]
  /\ pwDrops' = WipedAndDropped(decState.password)
  /\ UNCHANGED <<selected, disk, prov, devLogN, exited, inFlight, capVars, decPending, decKey, encVars>>

DecTypePassword(ch) ==
  /\ tabs[selected] = "Decode"
  /\ decState.screen = "password"
  /\ Len(decState.inputBuffer) < Min(256, MaxPwLen)
  /\ decState' = [decState EXCEPT !.inputBuffer = Append(@, ch)]
  /\ UNCHANGED <<selected, disk, prov, devLogN, exited, inFlight, pwDrops, capVars, decPending, decKey, decLast, encVars>>

DecBackspace ==
  /\ tabs[selected] = "Decode"
  /\ decState.screen = "password"
  /\ decState.inputBuffer # <<>>
  /\ decState' = [decState EXCEPT !.inputBuffer = SubSeq(@, 1, Len(@) - 1)]
  /\ UNCHANGED <<selected, disk, prov, devLogN, exited, inFlight, pwDrops, capVars, decPending, decKey, decLast, encVars>>

\* password screen: ENTER stores the password and arms processDecoding
DecEnterPassword ==
  /\ tabs[selected] = "Decode"
  /\ decState.screen = "password"
  /\ decState' = [decState EXCEPT !.password = textToBytes(decState.inputBuffer),
                                  !.inputBuffer = <<>>, !.progress = 5,
                                  !.screen = "processing"]
  /\ decPending' = TRUE
  /\ pwDrops' = WipedAndDropped(decState.password)
  /\ UNCHANGED <<selected, disk, prov, devLogN, exited, inFlight, capVars, decKey, decLast, encVars>>

DecEscape ==
  /\ tabs[selected] = "Decode"
  /\ decState.screen # "processing"
  /\ decState # DecInitState
  /\ decState' = DecInitState
  /\ decKey' = NullBuf
  /\ decLast' = NoDecLast
  /\ pwDrops' = WipedAndDropped(decState.password)
  /\ UNCHANGED <<selected, disk, prov, devLogN, exited, inFlight, capVars, decPending, encVars>>

DecRestart ==
  /\ tabs[selected] = "Decode"
  /\ decState.screen = "complete"
  /\ decState' = DecInitState
  /\ decKey' = NullBuf
  /\ decLast' = NoDecLast
  /\ pwDrops' = WipedAndDropped(decState.password)
  /\ UNCHANGED <<selected, disk, prov, devLogN, exited, inFlight, capVars, decPending, encVars>>

\* processDecoding, run by the timer armed on the password screen
\* a variant of processDecoding whose "No embedded payload" return leaves
\* state.screen as it is
DecodingRuns_NoPayloadStays ==
  /\ IF decState.uploadedFile = NoPath
       THEN /\ decState' = [decState EXCEPT !.error = ERR_NO_FILE, !.screen = "complete"]
            /\ UNCHANGED <<decKey, decLast, pwDrops>>
     ELSE \E pw \in {IF decState.password = NullBuf THEN <<>> ELSE decState.password} :
            \E r \in {DecodeRun(decState.buffer, pw, devLogN)} :
              /\ decState' = [decState EXCEPT
                                !.screen = IF r.error = ERR_NO_PAYLOAD THEN "processing"
                                           ELSE "complete",
                                !.progress = IF r.wiped THEN 100 ELSE 66,
                                !.decodedMessage = r.decodedMessage,
                                !.error = r.error,
                                !.password = IF r.wiped THEN NullBuf ELSE decState.password]
              /\ pwDrops' = IF r.wiped THEN WipedAndDropped(decState.password) ELSE pwDrops
              /\ decKey' = r.key
              /\ decLast' = [decLast EXCEPT !.via = r.via, !.pw = pw]

DecodingRuns ==
  /\ IF decState.uploadedFile = NoPath
       THEN /\ decState' = [decState EXCEPT !.error = ERR_NO_FILE, !.screen = "complete"]
            /\ UNCHANGED <<decKey, decLast, pwDrops>>
     ELSE \E pw \in {IF decState.password = NullBuf THEN <<>> ELSE decState.password} :
            \E r \in {DecodeRun(decState.buffer, pw, devLogN)} :
              /\ decState' = [decState EXCEPT
                                !.screen = "complete",
                                !.progress = IF r.wiped THEN 100 ELSE 66,
                                !.decodedMessage = r.decodedMessage,
                                !.error = r.error,
                                !.password = IF r.wiped THEN NullBuf ELSE decState.password]
              /\ pwDrops' = IF r.wiped THEN WipedAndDropped(decState.password) ELSE pwDrops
              /\ decKey' = r.key
              /\ decLast' = [decLast EXCEPT !.via = r.via, !.pw = pw]

ProcessDecoding ==
  /\ decPending
  /\ decPending' = FALSE
  /\ DecodingRuns
  /\ UNCHANGED <<selected, disk, prov, devLogN, exited, inFlight, capVars, encVars>>

\* ------------------------------------------------------------------- spec
Next ==
  \/ KeyTab
  \/ KeyEscape
  \/ \E f \in Paths : EncPickFile(f)
  \/ \E ch \in MsgChars : EncTypeMessage(ch)
  \/ EncBackspace
  \/ EncSaveMessage
  \/ \E ch \in PwChars : EncTypePassword(ch)
  \/ EncEnterPassword
  \/ EncEscape
  \/ EncRestart
  \/ \E salt \in Salts, iv \in IVs, io \in IoOutcomes : ProcessEncoding(salt, iv, io)
  \/ \E f \in Paths : DecPickFile(f)
  \/ \E ch \in PwChars : DecTypePassword(ch)
  \/ DecBackspace
  \/ DecEnterPassword
  \/ DecEscape
  \/ DecRestart
  \/ ProcessDecoding

Spec == Init /\ [][Next]_vars

\* ------------------------------------------- the runs with their awaits
\* processEncoding and processDecoding are async: between the first
\* statements and the return the event loop delivers key events.  A run is
\* split where it first awaits: Start is the code up to there, Finish the
\* rest.
MaxInFlight == 2

\* the timer of the encode wizard fires: the early returns, or the
\* statements up to the first await
StartEncoding ==
  /\ ~exited
  /\ encPending
  /\ inFlight.enc < MaxInFlight
  /\ encPending' = FALSE
  /\ IF encState.uploadedFile = NoPath \/ encState.message = <<>>
       THEN /\ \E salt \in Salts, iv \in IVs : EncodingRuns(salt, iv, "ok")
            /\ UNCHANGED inFlight
       ELSE /\ encState' = [encState EXCEPT !.screen = "processing", !.progress = 0,
                                            !.intermediateWritten = FALSE,
                                            !.outputPath = makeOutputPath(encState.uploadedFile)]
            /\ inFlight' = [inFlight EXCEPT !.enc = @ + 1]
            /\ UNCHANGED <<disk, prov, encKey, encLast, encRuns, pwDrops>>
  /\ UNCHANGED <<selected, devLogN, exited, capVars, decVars>>

\* a processEncoding in flight runs to its return
FinishEncoding(salt, iv, io) ==
  /\ ~exited
  /\ inFlight.enc > 0
  /\ EncodingRuns(salt, iv, io)
  /\ inFlight' = [inFlight EXCEPT !.enc = @ - 1]
  /\ UNCHANGED <<selected, devLogN, exited, encPending, capVars, decVars>>

StartDecoding ==
  /\ ~exited
  /\ decPending
  /\ inFlight.dec < MaxInFlight
  /\ decPending' = FALSE
  /\ IF decState.uploadedFile = NoPath
       THEN /\ DecodingRuns
            /\ UNCHANGED inFlight
       ELSE /\ decState' = [decState EXCEPT !.screen = "processing", !.progress = 0,
                                            !.decodedMessage = NullBuf, !.error = NoError]
            /\ inFlight' = [inFlight EXCEPT !.dec = @ + 1]
            /\ UNCHANGED <<decKey, decLast, pwDrops>>
  /\ UNCHANGED <<selected, disk, prov, devLogN, exited, capVars, encVars>>

FinishDecoding ==
  /\ ~exited
  /\ inFlight.dec > 0
  /\ DecodingRuns
  /\ inFlight' = [inFlight EXCEPT !.dec = @ - 1]
  /\ UNCHANGED <<selected, disk, prov, devLogN, exited, decPending, capVars, encVars>>

\* index.ts, TAB while a run is armed or in flight: index.ts takes the key
\* before the wizards see it
KeyTabDuringRun ==
  /\ ~exited
  /\ encPending \/ decPending \/ inFlight # NoneInFlight
  /\ selected' = (selected % Len(tabs)) + 1
  /\ UNCHANGED <<disk, prov, devLogN, exited, inFlight, pwDrops, capVars, encVars, decVars>>

\* the user has a clean JPEG or the JPEG of an earlier session, on a device
\* with the memory for the preferred scrypt cost or for the lowest one
InitRun ==
  /\ InitWith({"jpg", "old"})
  /\ devLogN \in {SCRYPT_LOGN_PREFERRED, 11}
  /\ capIn = NoCapIn
  /\ capOut = NoCapOut
  /\ call = NoCall
  /\ ret = NoRet

\* the key typed into the message box
RunMsgChars == {65}

NextRun ==
  \/ KeyTab
  \/ KeyTabDuringRun
  \/ KeyEscape
  \/ \E f \in Paths : EncPickFile(f)
  \/ \E ch \in RunMsgChars : EncTypeMessage(ch)
  \/ EncBackspace
  \/ EncSaveMessage
  \/ \E ch \in PwChars : EncTypePassword(ch)
  \/ EncEnterPassword
  \/ EncEscape
  \/ EncRestart
  \/ StartEncoding
  \/ \E salt \in Salts, iv \in IVs, io \in IoOutcomes : FinishEncoding(salt, iv, io)
  \/ \E f \in Paths : DecPickFile(f)
  \/ \E ch \in PwChars : DecTypePassword(ch)
  \/ DecBackspace
  \/ DecEnterPassword
  \/ DecEscape
  \/ DecRestart
  \/ StartDecoding
  \/ FinishDecoding

SpecRun == InitRun /\ [][NextRun]_vars

\* the steps in which a run in flight returns: the steps of FinishEncoding
\* and of FinishDecoding, told by the count of the runs in flight
EncodingReturns ==
  /\ ~exited
  /\ inFlight.enc > 0
  /\ inFlight' = [inFlight EXCEPT !.enc = @ - 1]

DecodingReturns ==
  /\ ~exited
  /\ inFlight.dec > 0
  /\ inFlight' = [inFlight EXCEPT !.dec = @ - 1]

\* the timers fire and the awaited sleeps, scrypt calls and file operations
\* return
SpecRunFair ==
  /\ SpecRun
  /\ WF_vars(StartEncoding)
  /\ WF_inFlight(EncodingReturns)
  /\ WF_vars(StartDecoding)
  /\ WF_inFlight(DecodingReturns)

\* ------------------------------------------- the decode wizard on its own
\* The disk holds one file: the output of an earlier processEncoding for
\* message "A" under a password, or the file "two".  The device has the
\* memory for the preferred scrypt cost.
InitDec ==
  /\ selected = 3
  /\ devLogN = SCRYPT_LOGN_PREFERRED
  /\ exited = FALSE
  /\ inFlight = NoneInFlight
  /\ pwDrops = NoDrops
  /\ \/ \E c \in UserFiles \ {"old"}, pw \in {<<>>, <<97>>}, salt \in Salts, iv \in IVs :
          \E r \in {EncodeRun(CarrierBytes(c), Ext(c), <<65>>, pw, salt, iv, devLogN, "ok")} :
            /\ r.error = NoError
            /\ disk = [f \in Paths |->
                         IF f = [name |-> c, enc |-> 1, tam |-> 0] THEN r.written ELSE NullBuf]
            /\ prov = [f \in Paths |->
                         IF f = [name |-> c, enc |-> 1, tam |-> 0]
                           THEN [origin |-> "encode", backend |-> r.how, msg |-> <<65>>,
                                 pw |-> pw, fresh |-> TRUE]
                         ELSE UserProv]
     \/ /\ disk = [f \in Paths |-> IF f = [name |-> "two", enc |-> 0, tam |-> 0]
                                     THEN CarrierBytes("two") ELSE NullBuf]
        /\ prov = [f \in Paths |-> UserProv]
  /\ encState = EncInitState
  /\ encPending = FALSE
  /\ encKey = NullBuf
  /\ encLast = NoEncLast
  /\ encRuns = 0
  /\ decState = DecInitState
  /\ decPending = FALSE
  /\ decKey = NullBuf
  /\ decLast = NoDecLast
  /\ capIn = NoCapIn
  /\ capOut = NoCapOut
  /\ call = NoCall
  /\ ret = NoRet

\* the bits of a byte the model flips: the lowest and the highest
TamperBits == {0, 7}

\* Somebody else changes an encoded file: bit k of the byte at offset o is
\* flipped in a copy of the file, while the decode wizard rests.
Tamper ==
  /\ decState = DecInitState
  /\ ~decPending
  /\ \E f \in {p \in Paths : /\ p.tam = 0
                               /\ disk[p] # NullBuf
                               /\ prov[p].origin = "encode"
                               /\ disk[[p EXCEPT !.tam = 1]] = NullBuf} :
       \E o \in 0..(Len(disk[f]) - 1), k \in TamperBits :
         /\ disk' = [disk EXCEPT ![[f EXCEPT !.tam = 1]] =
                        [disk[f] EXCEPT ![o + 1] = SetBit(@, k, 1 - BitOf(@, k))]]
         /\ prov' = [prov EXCEPT ![[f EXCEPT !.tam = 1]] =
                        [prov[f] EXCEPT !.origin = "tamper"]]
  /\ UNCHANGED <<selected, devLogN, exited, inFlight, pwDrops, capVars, encVars, decVars>>

NextDec ==
  \/ Tamper
  \/ \E f \in Paths : DecPickFile(f)
  \/ \E ch \in PwChars : DecTypePassword(ch)
  \/ DecBackspace
  \/ DecEnterPassword
  \/ DecEscape
  \/ DecRestart
  \/ ProcessDecoding

SpecDec == InitDec /\ [][NextDec]_vars

\* ------------------------------------------------- the embedding on its own
\* embedAuto and the final embedding of processEncoding applied to a carrier
\* and a ciphertext of a chosen length: PNG carriers of 155 to 170 pixels,
\* and JPEG payloads around the one-segment limit.
CapInputs ==
  {[kind |-> "png", pixels |-> px, n |-> n] : px \in 155..170, n \in 0..MaxCapLen}
    \cup {[kind |-> "jpeg", pixels |-> 0, n |-> n] :
             n \in (0..MaxCapLen) \cup {JPEG_MAX_BLOB - HEADER_SIZE + d : d \in (0 - 2)..2}}

CapCarrier(in) == IF in.kind = "png" THEN PngFile(in.pixels, 1) ELSE JpgFile

CapExt(in) == IF in.kind = "png" THEN ".png" ELSE ".jpg"

CapCiphertext(in) == [i \in 1..in.n |-> (7 * i) % 256]

CapKey == Scrypt(<<97>>, [i \in 1..16 |-> i], SCRYPT_LOGN_PREFERRED, SCRYPT_R, SCRYPT_P)

CapHeader(in) ==
  buildHeader([encrypted |-> TRUE, randomized |-> TRUE, bitsPerChannel |-> 1,
               channelsMask |-> CHANNELS_MASK_RGB, payloadLen |-> in.n, kdf |-> KDF_SCRYPT,
               logN |-> SCRYPT_LOGN_PREFERRED, r |-> SCRYPT_R, p |-> SCRYPT_P,
               salt |-> [i \in 1..16 |-> i], iv |-> [i \in 1..12 |-> 2 * i],
               tag |-> [i \in 1..16 |-> 3 * i]]).val

InitCap ==
  /\ InitWith({"bin"})
  /\ devLogN = SCRYPT_LOGN_PREFERRED
  /\ capIn \in CapInputs
  /\ capOut = NoCapOut
  /\ call = NoCall
  /\ ret = NoRet

CapEmbed(io) ==
  /\ ~capOut.done
  /\ \E emb \in {embedAuto(CapCarrier(capIn), CapExt(capIn), CapHeader(capIn),
                            CapCiphertext(capIn), CapKey)} :
       \E fin \in {FinalEmbedding(CapCarrier(capIn), emb,
                                  CapHeader(capIn) \o CapCiphertext(capIn),
                                  detectCarrier(CapCarrier(capIn), CapExt(capIn)), io)} :
         capOut' = [done |-> TRUE, err |-> emb.err, error |-> fin.error, how |-> fin.how,
                    written |-> fin.written]
  /\ UNCHANGED <<selected, disk, prov, devLogN, exited, inFlight, pwDrops, capIn, call, ret, encVars, decVars>>

NextCap == \E io \in {"ok", "nowrite"} : CapEmbed(io)

SpecCap == InitCap /\ [][NextCap]_vars

\* ------------------------------------------------- vocabulary of the claims
\* processEncoding / processDecoding has put its wizard on the complete screen
EncDone == encState.screen = "complete"

DecDone == decState.screen = "complete"

\* a buffer that holds nothing but zero bytes, or that does not exist
IsZeroized(buf) == buf = NullBuf \/ buf = Zeros(Len(buf))

\* every password the model can type
Passwords == UNION {[1..n -> PwChars] : n \in 0..MaxPwLen}

\* the messages of parseHeader (BadHeader) and of decipher.final() (AuthFail)
BadHeaderMsgs ==
  {"Header too small", "Not an Encapsula carrier (magic mismatch)", "Unsupported KDF"}
    \cup {"Unsupported version " \o ToString(v) : v \in 0..255}

AuthFail(error) == error[2] = GCM_AUTH_MSG

\* the file a modified copy was made from
OriginalOf(f) == disk[[f EXCEPT !.tam = 0]]

NoParts == [header |-> NullBuf, ct |-> NullBuf]

\* the header and the ciphertext a file holds, as the backend that wrote it
\* reads them under the password pw
PngParts(buf, pw, dev) ==
  Bind(PngSyncRead(buf), LAMBDA png :
    IF png.err # "" THEN NoParts
    ELSE Bind(readHeaderBits(png.data), LAMBDA hb :
      IF hb.err # "" THEN NoParts
      ELSE Bind(parseHeader(hb.val), LAMBDA pm :
        IF pm.err # "" THEN [header |-> hb.val, ct |-> NullBuf]
        ELSE Bind(deriveKeyFixed(pw, pm.meta.salt, pm.meta.logN, pm.meta.r, pm.meta.p, dev),
                  LAMBDA dk :
          IF dk.err # "" THEN [header |-> hb.val, ct |-> NullBuf]
          ELSE Bind(extractBits(png.data, PayloadOrder(png.data, pm.meta, dk.key),
                                pm.meta.payloadLen),
                    LAMBDA ct : [header |-> hb.val,
                                 ct |-> IF ct.err # "" THEN NullBuf ELSE ct.val])))))

ContainerParts(buf, backend) ==
  Bind(ContainerBlob(buf), LAMBDA cb :
    IF cb.blob = NullBuf \/ cb.via # backend \/ Len(cb.blob) < HEADER_SIZE THEN NoParts
    ELSE [header |-> Slice(cb.blob, 0, HEADER_SIZE), ct |-> SliceFrom(cb.blob, HEADER_SIZE)])

Parts(buf, backend, pw, dev) ==
  IF backend = "png" THEN PngParts(buf, pw, dev) ELSE ContainerParts(buf, backend)

\* t differs from o in the ciphertext only
CiphertextChanged(o, t) ==
  /\ o.ct # NullBuf
  /\ t.ct # NullBuf
  /\ o.header = t.header
  /\ Len(o.ct) = Len(t.ct)
  /\ o.ct # t.ct

\* t differs from o in the ciphertext or in the tag field of the header only
CiphertextOrTagChanged(o, t) ==
  /\ o.ct # NullBuf
  /\ t.ct # NullBuf
  /\ Slice(o.header, 0, 44) = Slice(t.header, 0, 44)
  /\ Len(o.ct) = Len(t.ct)
  /\ (o.header # t.header \/ o.ct # t.ct)

\* the decode wizard has finished on a modified copy of an encoded file, with
\* the password the file was encoded under
DecodedTampered ==
  /\ DecDone
  /\ decLast.prov.origin = "tamper"
  /\ decLast.pw = decLast.prov.pw

\* the parts of the file the decode wizard read and of the file it was made from
TamperedParts == Parts(decState.buffer, decLast.prov.backend, decLast.pw, devLogN)

OriginalParts == Parts(OriginalOf(decLast.file), decLast.prov.backend, decLast.pw, devLogN)

\* ------------------------------------------------------------------ claims
\* C1: round trip.  When processEncoding has embedded a message with the
\* backend of the carrier (PNG, JPEG, WebP or trailer) in a carrier of the
\* user, and processDecoding reads that output with the same password, the
\* decoded message is exactly the message and no error is reported.
C1_RoundTrip ==
  (/\ DecDone
   /\ decLast.prov.origin = "encode"
   /\ decLast.prov.fresh
   /\ decLast.pw = decLast.prov.pw)
    => (decState.decodedMessage = decLast.prov.msg /\ decState.error = NoError)

\* C2: password sensitivity.  Decoding an encoded file with a password other
\* than the one it was encoded under yields no plaintext and ends with the
\* authentication failure of AES-GCM.
C2_WrongPasswordAuthFail ==
  (/\ DecDone
   /\ decLast.prov.origin = "encode"
   /\ decLast.prov.fresh
   /\ decLast.pw # decLast.prov.pw)
    => (decState.decodedMessage = NullBuf /\ AuthFail(decState.error))

\* C3: tamper detection.  After one bit of the pixel buffer of a PNG-encoded
\* file, or one byte of the ciphertext a container backend embedded, has
\* been changed, decoding with the correct password returns no plaintext and
\* ends in the authentication failure or in a header error.
C3_TamperDetected ==
  (/\ DecodedTampered
   /\ \/ /\ decLast.prov.backend = "png"
         /\ Slice(decState.buffer, 0, 10) = Slice(OriginalOf(decLast.file), 0, 10)
      \/ /\ decLast.prov.backend # "png"
         /\ CiphertextChanged(OriginalParts, TamperedParts))
    => (/\ decState.decodedMessage = NullBuf
        /\ (AuthFail(decState.error) \/ decState.error[2] \in BadHeaderMsgs))

C5_PasswordZeroized ==
  /\ EncDone => IsZeroized(encState.password)
  /\ DecDone => IsZeroized(decState.password)

\* C6: key zeroization.  Whenever processEncoding or processDecoding has put
\* its wizard on the complete screen, the key buffer it derived holds zero
\* bytes only.
C6_KeyZeroized ==
  /\ EncDone => IsZeroized(encKey)
  /\ DecDone => IsZeroized(decKey)

\* C7: capacity boundary.  embedAuto accepts n bytes of ciphertext for a PNG
\* of p pixels iff 8 * n <= 3 * p - 480 and for a JPEG iff 60 + n <= 65533;
\* what it accepts is embedded (the extractor reads the same bytes back, the
\* payload of exactly the capacity included), what it rejects is rejected
\* with "Carrier too small." or "Message too large for a single JPEG chunk
\* (~64KB max). Use a PNG carrier for larger data.";
\* and capacityBits gives 1476 bytes for 64 x 64 pixels.
C7_CapacityBoundary ==
  /\ capacityBits(Zeros(4 * 64 * 64), 1) = 8 * 1476
  /\ capOut.done =>
       IF capIn.kind = "png"
         THEN /\ (capOut.err = "") <=> (8 * capIn.n <= 3 * capIn.pixels - HEADER_SIZE * 8)
              /\ capOut.err # "" => capOut.err = "Carrier too small."
              /\ (capOut.err = "" /\ capOut.written # NullBuf) =>
                   /\ capOut.how = "png"
                   /\ PngParts(capOut.written, <<97>>, SCRYPT_LOGN_PREFERRED)
                        = [header |-> CapHeader(capIn), ct |-> CapCiphertext(capIn)]
       ELSE /\ (capOut.err = "") <=> (HEADER_SIZE + capIn.n <= JPEG_MAX_BLOB)
            /\ capOut.err # "" =>
                 capOut.err = "Message too large for a single JPEG chunk (~64KB max). Use a PNG carrier for larger data."
            /\ (capOut.err = "" /\ capOut.written # NullBuf) =>
                 /\ capOut.how = "jpeg"
                 /\ extractJpegAPP15(capOut.written) = CapHeader(capIn) \o CapCiphertext(capIn)

\* a PNG payload of exactly the capacity was embedded
C7_Witness ==
  /\ capOut.done
  /\ capIn.kind = "png"
  /\ capIn.n >= 1
  /\ 8 * capIn.n = 3 * capIn.pixels - HEADER_SIZE * 8
  /\ capOut.err = ""
  /\ capOut.how = "png"

\* the plaintext of the first container backend, in the order JPEG APP15,
\* WebP chunk, trailer, whose blob parses and decrypts under the password;
\* NullBuf when there is none
FirstSuccess(buf, pw, dev) ==
  Bind(<<extractJpegAPP15(buf), extractWebPChunk(buf), extractTrailer(buf)>>, LAMBDA blobs :
    Bind({i \in 1..3 : /\ blobs[i] # NullBuf
                       /\ Len(blobs[i]) >= HEADER_SIZE + 1
                       /\ DecodeBlob(blobs[i], pw, dev).err = ""},
         LAMBDA ok :
           IF ok = {} THEN NullBuf
           ELSE DecodeBlob(blobs[CHOOSE i \in ok : \A j \in ok : i <= j], pw, dev).text))

\* C8: decode fallback order.  When the PNG attempt of processDecoding has
\* failed and one of the container backends holds a blob that parses and
\* decrypts under the password, the decoded message is the plaintext of the
\* first such backend in the order JPEG, WebP, trailer.
C8_FirstSuccess ==
  (/\ DecDone
   /\ decState.uploadedFile # NoPath
   /\ decLast.via # "png"
   /\ FirstSuccess(decState.buffer, decLast.pw, devLogN) # NullBuf)
    => decState.decodedMessage = FirstSuccess(decState.buffer, decLast.pw, devLogN)

\* some backend yields a blob of the file that begins with a valid header
ValidHeaderBlob(buf) ==
  \/ Bind(PngSyncRead(buf), LAMBDA png :
       /\ png.err = ""
       /\ readHeaderBits(png.data).err = ""
       /\ parseHeader(readHeaderBits(png.data).val).err = "")
  \/ \E blob \in {extractJpegAPP15(buf), extractWebPChunk(buf), extractTrailer(buf)} :
       /\ blob # NullBuf
       /\ parseHeader(Slice(blob, 0, HEADER_SIZE)).err = ""

\* C9: processDecoding reports "No embedded payload found or payload too
\* small." only when no backend yields a blob that begins with a valid header.
C9_NoPayloadOnlyIfNoHeader ==
  (DecDone /\ decState.error = ERR_NO_PAYLOAD) => ~ValidHeaderBlob(decState.buffer)

\* C10: indistinguishability.  When processDecoding has read, with the
\* correct password, a copy of an encoded file in which only the ciphertext
\* or the tag was changed, the message and the error it reports are those it
\* reports for the untouched file under every wrong password.
C10_Indistinguishable ==
  (DecodedTampered /\ CiphertextOrTagChanged(OriginalParts, TamperedParts))
    => \A w \in Passwords \ {decLast.prov.pw} :
         \E r \in {DecodeRun(OriginalOf(decLast.file), w, devLogN)} :
           /\ decState.decodedMessage = r.decodedMessage
           /\ decState.error = r.error

\* the decode wizard has reported on a file whose ciphertext was changed
C10_Witness ==
  /\ DecodedTampered
  /\ decLast.prov.backend = "jpeg"
  /\ CiphertextChanged(OriginalParts, TamperedParts)
  /\ AuthFail(decState.error)

\* ------------------------------------------------ the functions on their own
\* what the actions below leave alone
fnFrame == <<selected, disk, prov, devLogN, exited, inFlight, pwDrops, capIn, capOut, call, encVars, decVars>>

\* parameters of buildHeader: salts, ivs and tags of the right and of a wrong
\* length, payload lengths of one, two and four significant bytes
HdrSalts == {[i \in 1..16 |-> i], [i \in 1..16 |-> 255 - i], [i \in 1..15 |-> i]}

HdrIvs == {[i \in 1..12 |-> 2 * i], [i \in 1..11 |-> 2 * i]}

HdrTags == {[i \in 1..16 |-> 200 + i], [i \in 1..17 |-> i]}

HdrParams ==
  [encrypted : BOOLEAN, randomized : BOOLEAN, bitsPerChannel : {1, 2},
   channelsMask : {CHANNELS_MASK_RGB, 5}, payloadLen : {0, 258, 16909060},
   kdf : {KDF_SCRYPT}, logN : {SCRYPT_LOGN_MIN, SCRYPT_LOGN_PREFERRED}, r : {SCRYPT_R},
   p : {SCRYPT_P}, salt : HdrSalts, iv : HdrIvs, tag : HdrTags]

\* buildHeader, and parseHeader applied to what it built
ApplyBuildHeader ==
  /\ call.fn = "buildHeader"
  /\ ~ret.done
  /\ \E built \in {buildHeader(call.arg)} :
       ret' = [done |-> TRUE,
               val |-> [built |-> built,
                        parsed |-> IF built.err = "" THEN parseHeader(built.val)
                                   ELSE [err |-> "nothing to parse", meta |-> NoMeta]]]
  /\ UNCHANGED fnFrame

\* C11: header invariance.  For parameters with a 16-byte salt, a 12-byte iv
\* and a 16-byte tag buildHeader returns exactly 60 bytes in the fixed
\* big-endian layout and parseHeader returns the same field values from
\* them; for a salt, iv or tag of another length buildHeader fails.
C11_HeaderRoundTrip ==
  (ret.done /\ call.fn = "buildHeader") =>
    LET h == call.arg
        b == ret.val.built
        m == ret.val.parsed.meta
    IN IF Len(h.salt) = 16 /\ Len(h.iv) = 12 /\ Len(h.tag) = 16
         THEN /\ b.err = ""
              /\ Len(b.val) = 60
              /\ SubSeq(b.val, 1, 4) = <<69, 67, 65, 80>>
              /\ b.val[5] = 1
              /\ b.val[6] = (IF h.encrypted THEN 1 ELSE 0) + (IF h.randomized THEN 2 ELSE 0)
              /\ b.val[7] = h.bitsPerChannel
              /\ b.val[8] = h.channelsMask
              /\ b.val[9] * 16777216 + b.val[10] * 65536 + b.val[11] * 256 + b.val[12]
                   = h.payloadLen
              /\ <<b.val[13], b.val[14], b.val[15], b.val[16]>> = <<h.kdf, h.logN, h.r, h.p>>
              /\ SubSeq(b.val, 17, 32) = h.salt
              /\ SubSeq(b.val, 33, 44) = h.iv
              /\ SubSeq(b.val, 45, 60) = h.tag
              /\ ret.val.parsed.err = ""
              /\ [k \in DOMAIN h |-> m[k]] = h
       ELSE b.err # ""

\* a header with a four-byte payload length was built and parsed back
C11_Witness ==
  /\ ret.done
  /\ call.fn = "buildHeader"
  /\ call.arg.payloadLen = 16909060
  /\ call.arg.randomized
  /\ ret.val.built.err = ""
  /\ ret.val.parsed.err = ""
  /\ ret.val.parsed.meta.payloadLen = 16909060

\* pixel buffers of 160 to 166 pixels with two different contents, two keys,
\* one and two bits per channel: the encoder's order of the payload positions
\* for the first buffer, the decoder's order for the second, and a payload
\* that fills the positions written by the one order and read by the other
PosKeys ==
  {CapKey, Scrypt(<<98, 99>>, [i \in 1..16 |-> 40 + i], SCRYPT_LOGN_MIN, SCRYPT_R, SCRYPT_P)}

PosArgs == [key : PosKeys, pixels : 160..166, bitsPerChannel : {1, 2}]

PosBufferA(n) == [q \in 1..(4 * n) |-> (q * 37) % 256]

PosBufferB(n) == [q \in 1..(4 * n) |-> (q * 91 + 5) % 256]

PosPayload(n) == [i \in 1..n |-> (53 * i + 129) % 256]

\* embedAuto orders the positions of the buffer it embeds into, processDecoding
\* those of the buffer it reads; embedBits writes and extractBits reads
ApplyPositions ==
  /\ call.fn = "positions"
  /\ ~ret.done
  /\ \E enc \in {shufflePositions(
                     buildPayloadPositions(PosBufferA(call.arg.pixels), call.arg.bitsPerChannel),
                     NewHmacPRNG(HmacSha256(call.arg.key, PERMUTE_LABEL)))} :
       \E dec \in {PayloadOrder(PosBufferB(call.arg.pixels),
                                [NoMeta EXCEPT !.randomized = TRUE,
                                               !.bitsPerChannel = call.arg.bitsPerChannel],
                                call.arg.key)} :
         \E written \in {embedBits(PosBufferA(call.arg.pixels), enc,
                                   PosPayload(Len(enc) \div 8))} :
           ret' = [done |-> TRUE,
                   val |-> [enc |-> enc, dec |-> dec, written |-> written,
                            read |-> extractBits(written.val, dec, Len(enc) \div 8)]]
  /\ UNCHANGED fnFrame

CapPixelsIn == PngSyncRead(CapCarrier(capIn)).data

CapPixelsOut == PngSyncRead(capOut.written).data

\* the payload positions in the order embedAuto fills them
CapPermuted ==
  shufflePositions(buildPayloadPositions(CapPixelsIn, 1),
                   NewHmacPRNG(HmacSha256(CapKey, PERMUTE_LABEL)))

\* the 0-based offset o is one the embedding of capIn may touch
CapTouchable(o) ==
  /\ o % 4 # 3
  /\ \/ 3 * (o \div 4) + (o % 4) < 480
     \/ \E k \in 1..(8 * capIn.n) : CapPermuted[k].byteIndex = o

\* C13: carrier integrity (PNG).  A PNG embedding changes the decoded pixel
\* buffer only in the low bit of R, G or B bytes that are among the first 480
\* RGB bytes or among the first 8 * |ciphertext| permuted payload positions;
\* alpha bytes, higher bits, other RGB bytes and the length are unchanged.
C13_PngCarrierIntegrity ==
  (capOut.done /\ capIn.kind = "png" /\ capOut.err = "" /\ capOut.written # NullBuf) =>
    /\ PngSyncRead(capOut.written).err = ""
    /\ Len(CapPixelsOut) = Len(CapPixelsIn)
    /\ \A q \in 1..Len(CapPixelsIn) :
         /\ CapPixelsOut[q] \div 2 = CapPixelsIn[q] \div 2
         /\ CapPixelsOut[q] # CapPixelsIn[q] => CapTouchable(q - 1)

\* an embedding of three bytes changed a header byte and a payload byte
C13_Witness ==
  /\ capOut.done
  /\ capIn.kind = "png"
  /\ capIn.n = 3
  /\ capOut.err = ""
  /\ capOut.written # NullBuf
  /\ \E q \in 1..Len(CapPixelsIn) :
       CapPixelsOut[q] # CapPixelsIn[q] /\ 3 * ((q - 1) \div 4) + ((q - 1) % 4) < 480
  /\ \E q \in 1..Len(CapPixelsIn) :
       CapPixelsOut[q] # CapPixelsIn[q] /\ 3 * ((q - 1) \div 4) + ((q - 1) % 4) >= 480

\* JPEG carriers: SOI alone, a segment before SOS, a segment length below 2,
\* a restart marker, a segment that runs past the end, a byte that is no
\* marker, a segment that ends the file; and a file that is no JPEG
JpegCarriers ==
  {<<255, 216>>, JpgFile,
   <<255, 216, 255, 224, 0, 1, 9, 9>>,
   <<255, 216, 255, 208, 255, 224, 0, 2, 255, 217>>,
   <<255, 216, 255, 224, 0, 200, 1, 2>>,
   <<255, 216, 0, 1, 2, 3>>,
   <<255, 216, 255, 224, 0, 2>>,
   <<0, 216, 255, 224>>}

\* blob lengths: small ones and one whose length field needs both bytes, for
\* every carrier; the lengths on either side of the one-segment limit, for one
JpegBlobLens == {0, 1, 3, 254}

JpegLimitLens == {JPEG_MAX_BLOB, JPEG_MAX_BLOB + 1}

JpegCalls ==
  {[original |-> o, n |-> n] : o \in JpegCarriers, n \in JpegBlobLens}
    \cup {[original |-> JpgFile, n |-> n] : n \in JpegLimitLens}

JpegBlob(n) == [i \in 1..n |-> (11 * i + 3) % 256]

ApplyInsertJpegAPP15 ==
  /\ call.fn = "insertJpegAPP15"
  /\ ~ret.done
  /\ ret' = [done |-> TRUE,
             val |-> insertJpegAPP15(call.arg.original, JpegBlob(call.arg.n))]
  /\ UNCHANGED fnFrame

\* the output is the carrier with the APP15 segment of the blob put in at off
JpegInsertedAt(out, original, blob, off) ==
  /\ Len(out) = Len(original) + Len(blob) + 4
  /\ \A i \in 1..off : out[i] = original[i]
  /\ out[off + 1] = 255
  /\ out[off + 2] = 239
  /\ out[off + 3] * 256 + out[off + 4] = Len(blob) + 2
  /\ \A i \in 1..Len(blob) : out[off + 4 + i] = blob[i]
  /\ \A i \in (off + 1)..Len(original) : out[Len(blob) + 4 + i] = original[i]

\* C14: carrier integrity (JPEG).  For a carrier that starts with FF D8 and a
\* blob of at most 65,533 bytes insertJpegAPP15 returns the carrier with one
\* segment FF EF, be16(|blob| + 2), blob inserted at one offset >= 2, every
\* other byte in place, and the length field holds |blob| + 2 <= 65,535.
C14_JpegCarrierIntegrity ==
  (ret.done /\ call.fn = "insertJpegAPP15" /\ isJpeg(call.arg.original)
     /\ call.arg.n <= 65533) =>
    /\ ret.val.err = ""
    /\ call.arg.n + 2 <= 65535
    /\ \E off \in 2..Len(call.arg.original) :
         JpegInsertedAt(ret.val.val, call.arg.original, JpegBlob(call.arg.n), off)

\* a blob of 254 bytes went in behind the APP0 segment of the carrier, under
\* the length 01 00
C14_Witness ==
  /\ ret.done
  /\ call.fn = "insertJpegAPP15"
  /\ call.arg.original = JpgFile
  /\ call.arg.n = 254
  /\ ret.val.err = ""
  /\ JpegInsertedAt(ret.val.val, JpgFile, JpegBlob(254), 8)
  /\ ret.val.val[11] = 1
  /\ ret.val.val[12] = 0

\* what the four calls of crypto.scrypt come to, for each logN
KdfDevices == [SCRYPT_LOGN_MIN..SCRYPT_LOGN_PREFERRED -> ScryptOutcomes]

KdfSalt == [i \in 1..16 |-> 7 * i]

KdfArgs == [password : {<<>>, <<112, 119>>}, scrypt : KdfDevices]

ApplyDeriveKeyAdaptive ==
  /\ call.fn = "deriveKeyAdaptive"
  /\ ~ret.done
  /\ ret' = [done |-> TRUE,
             val |-> deriveKeyAdaptive(call.arg.password, KdfSalt, SCRYPT_LOGN_PREFERRED,
                                       SCRYPT_R, SCRYPT_P, call.arg.scrypt)]
  /\ UNCHANGED fnFrame

\* the logN from 15 down to last, in that order
Downto(last) == [i \in 1..(15 - last + 1) |-> 15 - i + 1]

\* the attempts that do not lead to a next one: a key or an error of another kind
KdfStops ==
  {l \in 12..15 : call.arg.scrypt[l] \notin {ScryptMemoryLimit, ScryptInvalidParams}}

\* C15: adaptive KDF.  deriveKeyAdaptive tries logN = 15, 14, 13, 12 in that
\* order with r = 8 and p = 1; a memory-limit / invalid-params error moves to
\* the next lower logN, the first success returns the 32-byte key and its
\* logN, four failures return "not supported on this device", and any other
\* error is propagated at once, with no further attempt.
C15_AdaptiveKdf ==
  (ret.done /\ call.fn = "deriveKeyAdaptive") =>
    /\ SCRYPT_R = 8
    /\ SCRYPT_P = 1
    /\ SCRYPT_MAXMEM = 512 * 1024 * 1024
    /\ Len(ret.val.attempts) <= 4
    /\ IF KdfStops = {}
         THEN /\ ret.val.attempts = <<15, 14, 13, 12>>
              /\ ret.val.err = "scrypt parameters not supported on this device (too little memory)"
              /\ ret.val.key = NullBuf
         ELSE LET first == CHOOSE l \in KdfStops : \A m \in KdfStops : m <= l
              IN /\ ret.val.attempts = Downto(first)
                 /\ IF call.arg.scrypt[first] = ScryptOk
                      THEN /\ ret.val.err = ""
                           /\ ret.val.logNUsed = first
                           /\ ret.val.key = Scrypt(call.arg.password, KdfSalt, first, 8, 1)
                           /\ Len(ret.val.key) = 32
                      ELSE /\ ret.val.err = call.arg.scrypt[first].message
                           /\ ret.val.key = NullBuf

\* an error of another kind at logN = 14, after a memory-limit error at 15
\* and before a logN that would have worked
C15_Witness ==
  /\ ret.done
  /\ call.fn = "deriveKeyAdaptive"
  /\ call.arg.scrypt[15] = ScryptMemoryLimit
  /\ call.arg.scrypt[14] = ScryptOtherError
  /\ call.arg.scrypt[13] = ScryptOk
  /\ ret.val.attempts = <<15, 14>>
  /\ ret.val.err = "Scrypt failed"

\* the key of the third attempt, after two errors of the two retrying kinds
C15_SteppedDown ==
  /\ ret.done
  /\ call.fn = "deriveKeyAdaptive"
  /\ call.arg.scrypt[15] = ScryptInvalidParams
  /\ call.arg.scrypt[14] = ScryptMemoryLimit
  /\ call.arg.scrypt[13] = ScryptOk
  /\ ret.val.logNUsed = 13

\* an encode on a device with memory for N = 2^encDev and a decode of its
\* output, under the same password, on a device with memory for 2^decDev
KeyArgs ==
  [carrier : {"png", "jpg", "bin"}, password : {<<>>, <<97>>}, encDev : 11..16,
   decDev : 11..16]

KeySalt == [i \in 1..16 |-> 100 + i]

KeyIv == [i \in 1..12 |-> 30 + i]

\* the header processDecoding reads from a file: from the pixels of a PNG,
\* else from the first 60 bytes of the container blob
StoredHeader(file) ==
  IF PngSyncRead(file).err = ""
    THEN parseHeader(readHeaderBits(PngSyncRead(file).data).val)
  ELSE parseHeader(Slice(ContainerBlob(file).blob, 0, HEADER_SIZE))

ApplyEncodeThenDecode ==
  /\ call.fn = "encode, decode"
  /\ ~ret.done
  /\ \E enc \in {EncodeRun(CarrierBytes(call.arg.carrier), Ext(call.arg.carrier), <<65>>,
                            call.arg.password, KeySalt, KeyIv, call.arg.encDev, "ok")} :
       ret' = [done |-> TRUE,
               val |-> IF enc.written = NullBuf
                         THEN [enc |-> enc, stored |-> [err |-> "no file", meta |-> NoMeta],
                               dec |-> [key |-> NullBuf]]
                       ELSE [enc |-> enc, stored |-> StoredHeader(enc.written),
                             dec |-> DecodeRun(enc.written, call.arg.password,
                                               call.arg.decDev)]]
  /\ UNCHANGED fnFrame

\* C16: the logN in the header is the logN at which the encryption key was
\* derived; decode derives its key once, with the stored logN, r, p and salt
\* (a device without the memory for it fails, it does not step down); for
\* the correct password the decoder's key is the encoder's key, whatever
\* logN the encoder stepped down to.
C16_StoredLogN ==
  (ret.done /\ call.fn = "encode, decode") =>
    IF call.arg.encDev < SCRYPT_LOGN_MIN
      THEN ret.val.enc.written = NullBuf
    ELSE /\ ret.val.enc.written # NullBuf
         /\ ret.val.enc.logNUsed = Min(call.arg.encDev, SCRYPT_LOGN_PREFERRED)
         /\ ret.val.enc.key = Scrypt(call.arg.password, KeySalt, ret.val.enc.logNUsed,
                                     SCRYPT_R, SCRYPT_P)
         /\ ret.val.stored.err = ""
         /\ ret.val.stored.meta.logN = ret.val.enc.logNUsed
         /\ ret.val.stored.meta.r = SCRYPT_R
         /\ ret.val.stored.meta.p = SCRYPT_P
         /\ ret.val.stored.meta.salt = KeySalt
         /\ IF call.arg.decDev >= ret.val.enc.logNUsed
              THEN /\ ret.val.dec.key = ret.val.enc.key
                   /\ ret.val.dec.decodedMessage = <<65>>
              ELSE /\ ret.val.dec.key = NullBuf
                   /\ ret.val.dec.decodedMessage = NullBuf

\* the encoder stepped down to logN = 13 and the decoder derived the same key
C16_Witness ==
  /\ ret.done
  /\ call.fn = "encode, decode"
  /\ call.arg.encDev = 13
  /\ call.arg.carrier = "png"
  /\ ret.val.enc.logNUsed = 13
  /\ ret.val.stored.meta.logN = 13
  /\ ret.val.dec.key = ret.val.enc.key
  /\ ret.val.dec.key # NullBuf

\* buffers for detectCarrier: a PNG, a JPEG, SOI alone, a WebP, a PDF, a file
\* with no magic, and "RIFF....WEBP" and "%PDF-" with the top bit of their
\* first bytes set
DetectBuffers ==
  {PngFile(163, 1), JpgFile, <<255, 216>>, CarrierBytes("webp"),
   <<37, 80, 68, 70, 45, 49, 46, 52>>, <<1, 2, 3>>,
   <<210, 201, 198, 198, 4, 0, 0, 0, 215, 197, 194, 208>>,
   <<165, 80, 68, 70, 45, 49, 46, 52>>}

DetectExts ==
  {".png", ".PNG", ".jpg", ".JPG", ".jpeg", ".Jpeg", ".webp", ".WebP", ".pdf", ".PDF",
   ".bin", ""}

DetectArgs == [buf : DetectBuffers, ext : DetectExts]

\* detectCarrier, and the backend embedAuto then uses for a one-byte ciphertext
\* ("fallback" when it throws)
ApplyDetectCarrier ==
  /\ call.fn = "detectCarrier"
  /\ ~ret.done
  /\ \E kind \in {detectCarrier(call.arg.buf, call.arg.ext)} :
       \E emb \in {embedAuto(call.arg.buf, call.arg.ext, CapHeader([n |-> 1]), <<7>>,
                              CapKey)} :
         ret' = [done |-> TRUE,
                 val |-> [kind |-> kind, err |-> emb.err,
                          how |-> FinalEmbedding(call.arg.buf, emb, CapHeader([n |-> 1]) \o <<7>>,
                                                 kind, "ok").how]]
  /\ UNCHANGED fnFrame

\* C17: detectCarrier returns png for every buffer whose first eight bytes
\* are 89 50 4E 47 0D 0A 1A 0A, whatever the extension, and the carrier is
\* then embedded by the PNG LSB backend.
C17_PngBySignature ==
  (ret.done /\ call.fn = "detectCarrier" /\ HasAt(call.arg.buf, 0, PNG_SIG)) =>
    /\ ret.val.kind = "png"
    /\ ret.val.how = "png"

\* what the code does for a buffer with the PNG signature: the extension
\* decides, and only ".png" (in any case) leads to the PNG LSB backend
C17_PngByExtensionOnly ==
  (ret.done /\ call.fn = "detectCarrier" /\ HasAt(call.arg.buf, 0, PNG_SIG)) =>
    /\ ret.val.kind = "png" <=> call.arg.ext \in {".png", ".PNG"}
    /\ ret.val.how = "png" <=> call.arg.ext \in {".png", ".PNG"}

\* a PNG under the extension .jpg went to the JPEG backend, which threw
C17_Witness ==
  /\ ret.done
  /\ call.fn = "detectCarrier"
  /\ HasAt(call.arg.buf, 0, PNG_SIG)
  /\ call.arg.ext = ".jpg"
  /\ ret.val.kind = "jpeg"
  /\ ret.val.err = "Not a JPEG file"
  /\ ret.val.how = "fallback"

\* the backend an extension stands for
ExtBackend(ext) ==
  IF ext \in {".png", ".PNG"} THEN "png"
  ELSE IF ext \in {".jpg", ".JPG", ".jpeg", ".Jpeg"} THEN "jpeg"
  ELSE IF ext \in {".webp", ".WebP"} THEN "webp"
  ELSE "trailer"

\* C18: detection precedence.  For a buffer without the PNG signature: FF D8
\* at the start is jpeg; otherwise RIFF at bytes 0..3 and WEBP at bytes 8..11
\* is webp; otherwise %PDF- at the start is the trailer backend; each
\* whatever the extension.  Only when none of these matches the extension
\* decides (.png, .jpg / .jpeg, .webp, .pdf in any case), and every other
\* input goes to the trailer backend.
C18_DetectionPrecedence ==
  (ret.done /\ call.fn = "detectCarrier" /\ ~HasAt(call.arg.buf, 0, PNG_SIG)) =>
    BackendOf(ret.val.kind) =
      IF HasAt(call.arg.buf, 0, <<255, 216>>) THEN "jpeg"
      ELSE IF HasAt(call.arg.buf, 0, RIFF) /\ HasAt(call.arg.buf, 8, WEBP) THEN "webp"
      ELSE IF HasAt(call.arg.buf, 0, PDF_SIG) THEN "trailer"
      ELSE ExtBackend(call.arg.ext)

\* what the code does: the same precedence, with RIFF, WEBP and %PDF- matched
\* on the low seven bits of each byte
C18_PrecedenceOnSevenBits ==
  (ret.done /\ call.fn = "detectCarrier") =>
    BackendOf(ret.val.kind) =
      IF HasAt(call.arg.buf, 0, <<255, 216>>) THEN "jpeg"
      ELSE IF Len(call.arg.buf) >= 12 /\ AsciiEq(call.arg.buf, 0, RIFF)
                /\ AsciiEq(call.arg.buf, 8, WEBP) THEN "webp"
      ELSE IF AsciiEq(call.arg.buf, 0, PDF_SIG) THEN "trailer"
      ELSE ExtBackend(call.arg.ext)

\* a file that is no WebP, under the extension .bin, went to the WebP backend
C18_Witness ==
  /\ ret.done
  /\ call.fn = "detectCarrier"
  /\ call.arg.buf = <<210, 201, 198, 198, 4, 0, 0, 0, 215, 197, 194, 208>>
  /\ call.arg.ext = ".bin"
  /\ ret.val.kind = "webp"
  /\ ret.val.how = "webp"

\* inputs of parseHeader: two headers as buildHeader writes them, each cut
\* short, extended, or with one of the bytes 1..8, 12..17 and 60 replaced
ParseBases ==
  {CapHeader([n |-> 3]),
   buildHeader([encrypted |-> FALSE, randomized |-> FALSE, bitsPerChannel |-> 2,
                channelsMask |-> 5, payloadLen |-> 258, kdf |-> KDF_SCRYPT,
                logN |-> SCRYPT_LOGN_MIN, r |-> SCRYPT_R, p |-> SCRYPT_P,
                salt |-> [i \in 1..16 |-> 255 - i], iv |-> [i \in 1..12 |-> 9 * i],
                tag |-> [i \in 1..16 |-> 100 + i]]).val}

ParseInputs ==
  {[base EXCEPT ![i] = v] : base \in ParseBases,
                            i \in (1..8) \cup (12..17) \cup {60}, v \in {0, 1, 2, 69, 255}}
    \cup {Slice(base, 0, n) : base \in ParseBases, n \in {0, 3, 4, 13, 59}}
    \cup {base \o <<1, 2, 3>> : base \in ParseBases}

ApplyParseHeader ==
  /\ call.fn = "parseHeader"
  /\ ~ret.done
  /\ ret' = [done |-> TRUE, val |-> parseHeader(call.arg)]
  /\ UNCHANGED fnFrame

\* C19: parseHeader fails and returns no fields for an input shorter than 60
\* bytes, one whose first four bytes are not ECAP, one whose version byte is
\* not 1 (higher versions included) and one whose kdf byte is not 1; for
\* every other input of at least 60 bytes it returns the fields.
C19_ParseHeaderRejects ==
  (ret.done /\ call.fn = "parseHeader") =>
    LET h == call.arg
    IN IF Len(h) < 60
         THEN ret.val.err = "Header too small" /\ ret.val.meta = NoMeta
       ELSE IF <<h[1], h[2], h[3], h[4]>> # <<69, 67, 65, 80>>
         THEN /\ ret.val.err = "Not an Encapsula carrier (magic mismatch)"
              /\ ret.val.meta = NoMeta
       ELSE IF h[5] # 1
         THEN /\ ret.val.err = "Unsupported version " \o ToString(h[5])
              /\ ret.val.meta = NoMeta
       ELSE IF h[13] # 1
         THEN ret.val.err = "Unsupported KDF" /\ ret.val.meta = NoMeta
       ELSE /\ ret.val.err = ""
            /\ ret.val.meta =
                 [version |-> 1, encrypted |-> h[6] % 2 = 1,
                  randomized |-> (h[6] \div 2) % 2 = 1, bitsPerChannel |-> h[7],
                  channelsMask |-> h[8],
                  payloadLen |-> ((h[9] * 256 + h[10]) * 256 + h[11]) * 256 + h[12],
                  kdf |-> 1, logN |-> h[14], r |-> h[15], p |-> h[16],
                  salt |-> [i \in 1..16 |-> h[16 + i]], iv |-> [i \in 1..12 |-> h[32 + i]],
                  tag |-> [i \in 1..16 |-> h[44 + i]]]

\* a header of version 2, well formed otherwise, was rejected
C19_Witness ==
  /\ ret.done
  /\ call.fn = "parseHeader"
  /\ Len(call.arg) = 60
  /\ call.arg[5] = 2
  /\ call.arg[13] = 1
  /\ HasAt(call.arg, 0, MAGIC)
  /\ ret.val.err = "Unsupported version 2"
  /\ ret.val.meta = NoMeta

\* a header of 63 bytes was parsed
C19_ParsedLonger ==
  /\ ret.done
  /\ call.fn = "parseHeader"
  /\ Len(call.arg) = 63
  /\ ret.val.err = ""
  /\ ret.val.meta.payloadLen = 3

\* ------------------------------------------------------ the generic append
\* Buffer.from("<<ENCAPSULA_HIDDEN>>", "utf8")
GENERIC_MARKER ==
  <<60, 60, 69, 78, 67, 65, 80, 83, 85, 76, 65, 95, 72, 73, 68, 68, 69, 78, 62, 62>>

GENERIC_MAX_DATA == 10485760                      \* 10 * 1024 * 1024

\* embedGeneric: the file, the marker, the length, the data, the marker
embedGeneric(fileBuffer, data) ==
  fileBuffer \o GENERIC_MARKER \o u32be(Len(data)) \o data \o GENERIC_MARKER

\* extractGeneric: the length and the data behind the last occurrence of the
\* marker; null when there is no marker, no room for the length, a length of
\* 0 or above 10 MiB, or less data than the length says
extractGeneric(fileBuffer) ==
  Bind(LastIndexOf(fileBuffer, GENERIC_MARKER), LAMBDA startIndex :
    IF startIndex = -1 THEN NullBuf
    ELSE Bind(startIndex + Len(GENERIC_MARKER), LAMBDA lengthStart :
      IF lengthStart + 4 > Len(fileBuffer) THEN NullBuf
      ELSE Bind(readUInt32BE(fileBuffer, lengthStart), LAMBDA dataLength :
        IF dataLength <= 0 \/ dataLength > GENERIC_MAX_DATA THEN NullBuf
        ELSE IF lengthStart + 4 + dataLength > Len(fileBuffer) THEN NullBuf
        ELSE Slice(fileBuffer, lengthStart + 4, lengthStart + 4 + dataLength))))

\* host files: empty, three bytes, a PNG, a file that holds the marker, and a
\* file that is itself an output of embedGeneric; payloads of one to three
\* bytes, and one that holds the marker
GenericHosts ==
  {<<>>, <<1, 2, 3>>, PngFile(2, 1), <<9>> \o GENERIC_MARKER \o <<0, 0, 0, 1, 5, 6>>,
   embedGeneric(<<1, 2, 3>>, <<8, 8>>)}

GenericPayloads ==
  {<<7>>, <<0, 255>>, <<60, 60, 62>>, <<1, 2, 3, 4>>, GENERIC_MARKER \o <<0, 0, 0, 1, 4>>}

\* files for extractGeneric on its own: marker, length and data with no
\* closing marker, with a length of 0, the right length, one too many, more
\* than 10 MiB, and with less than four bytes behind the marker
GenericFiles ==
  {host \o GENERIC_MARKER \o rest :
     host \in {<<>>, <<1, 2, 3>>},
     rest \in {<<0, 0, 0, 0, 5>>, <<0, 0, 0, 2, 5, 6>>, <<0, 0, 0, 3, 5, 6>>,
               <<0, 160, 0, 1, 5, 6>>, <<0, 0, 2>>, <<0, 0, 0, 1, 5, 6, 7>>}}
    \cup {<<>>, <<1, 2, 3>>}

\* embedGeneric, and extractGeneric applied to what it returned
ApplyEmbedGeneric ==
  /\ call.fn = "embedGeneric"
  /\ ~ret.done
  /\ \E embedded \in {embedGeneric(call.arg.fileBuffer, call.arg.data)} :
       ret' = [done |-> TRUE,
               val |-> [embedded |-> embedded, extracted |-> extractGeneric(embedded)]]
  /\ UNCHANGED fnFrame

ApplyExtractGeneric ==
  /\ call.fn = "extractGeneric"
  /\ ~ret.done
  /\ ret' = [done |-> TRUE, val |-> extractGeneric(call.arg)]
  /\ UNCHANGED fnFrame

\* C20: generic-append round trip.  For every host file f and every payload
\* d of 1 byte to 10 MiB, extractGeneric(embedGeneric(f, d)) returns d.
C20_GenericRoundTrip ==
  (ret.done /\ call.fn = "embedGeneric"
     /\ Len(call.arg.data) > 0 /\ Len(call.arg.data) <= GENERIC_MAX_DATA) =>
    ret.val.extracted = call.arg.data

\* what the code does: the last occurrence of the marker is the closing one,
\* no length follows it, and extractGeneric returns null
C20_ClosingMarkerFound ==
  (ret.done /\ call.fn = "embedGeneric") =>
    /\ ret.val.embedded = call.arg.fileBuffer \o GENERIC_MARKER \o u32be(Len(call.arg.data))
                            \o call.arg.data \o GENERIC_MARKER
    /\ LastIndexOf(ret.val.embedded, GENERIC_MARKER) = Len(ret.val.embedded) - 20
    /\ ret.val.extracted = NullBuf

\* a payload of two bytes was appended to a file of three and not read back
C20_Witness ==
  /\ ret.done
  /\ call.fn = "embedGeneric"
  /\ call.arg.fileBuffer = <<1, 2, 3>>
  /\ call.arg.data = <<0, 255>>
  /\ Len(ret.val.embedded) = 49
  /\ ret.val.extracted = NullBuf

\* without a closing marker extractGeneric returns the data
C20_ExtractsWithoutClosingMarker ==
  (ret.done /\ call.fn = "extractGeneric"
     /\ call.arg = <<1, 2, 3>> \o GENERIC_MARKER \o <<0, 0, 0, 2, 5, 6>>) =>
    ret.val = <<5, 6>>

\* ------------------------------------------------------ the sequential LSB
\* a variant of makePayload that leaves out the version
makePayload_NoVersion(messageBuffer) == u32be(Len(messageBuffer)) \o messageBuffer

\* makePayload: version 1, the length, the message
makePayload(messageBuffer) == u32be(1) \o u32be(Len(messageBuffer)) \o messageBuffer

\* the 0-based offset of the k-th R, G or B byte (k from 0) of an RGBA buffer
RgbOffset(k) == 4 * (k \div 3) + (k % 3)

\* the embedding loop: bit k of allBits goes to the low bit of the k-th RGB byte
LsbWrite(data, allBytes) ==
  [q \in 1..Len(data) |->
     IF (q - 1) % 4 # 3 /\ RgbRank(q - 1) < 8 * Len(allBytes)
       THEN SetBit(data[q], 0, HeaderBit(allBytes, RgbRank(q - 1)))
       ELSE data[q]]

\* the bytes of the low bits of the RGB bytes from bit `from` on, MSB first
LsbRead(data, from, n) ==
  [i \in 1..n |-> ByteOf(LAMBDA b : data[RgbOffset(from + 8 * (i - 1) + b) + 1] % 2)]

\* embedLSBPNG / the PNG path of embedLSBImage: the 32-bit length of the
\* wrapped payload, then the wrapped payload
embedLSBPNG(fileBuffer, payload) ==
  Bind(PngSyncRead(fileBuffer), LAMBDA png :
    IF png.err # "" THEN [err |-> png.err, val |-> <<>>]
    ELSE IF 8 * Len(makePayload(payload)) + 32 > png.width * png.height * 3
      THEN [err |-> "Not enough capacity in PNG image for payload", val |-> <<>>]
    ELSE [err |-> "",
          val |-> PngSyncWrite([png EXCEPT !.data =
                     LsbWrite(png.data, u32be(Len(makePayload(payload)))
                                          \o makePayload(payload))])])

\* extractLSBPNG / the PNG path of extractLSB.  The length is put together
\* with 32-bit shifts: a first bit of 1 makes it negative.
extractLSBPNG(fileBuffer) ==
  Bind(PngSyncRead(fileBuffer), LAMBDA png :
    IF png.err # "" THEN [err |-> png.err, val |-> NullBuf]
    ELSE IF png.width * png.height * 3 < 32 THEN [err |-> "", val |-> NullBuf]
    ELSE Bind(LsbRead(png.data, 0, 4), LAMBDA lenBytes :
      IF lenBytes[1] >= 128 THEN [err |-> "", val |-> NullBuf]
      ELSE Bind(readUInt32BE(lenBytes, 0), LAMBDA payloadLen :
        IF payloadLen <= 0 \/ payloadLen > (png.width * png.height * 3 - 32) \div 8
          THEN [err |-> "", val |-> NullBuf]
        ELSE [err |-> "", val |-> LsbRead(png.data, 32, payloadLen)])))

\* unwrapPayload: the message of a version-1 wrapper with a length of 1 to
\* 10 MiB that fits; anything else is returned as it is
unwrapPayload(extracted) ==
  IF Len(extracted) < 8 THEN extracted
  ELSE IF /\ readUInt32BE(extracted, 0) = 1
          /\ readUInt32BE(extracted, 4) > 0
          /\ readUInt32BE(extracted, 4) <= GENERIC_MAX_DATA
          /\ Len(extracted) >= 8 + readUInt32BE(extracted, 4)
    THEN Slice(extracted, 8, 8 + readUInt32BE(extracted, 4))
  ELSE extracted

\* PNG hosts of 10 to 43 pixels and a file that is no PNG; payloads of 0 to 4 bytes
LsbHosts == {PngFile(w, 1) : w \in {10, 31, 32, 34, 35, 37, 38, 39, 40, 42, 43}}
              \cup {PngFile(6, 6), <<1, 2, 3>>}

LsbPayloads == {<<>>, <<7>>, <<0, 255>>, <<1, 0, 0>>, <<129, 2, 3, 4>>}

\* embedLSBPNG, extractLSBPNG on what it returned, unwrapPayload on that
ApplyEmbedLSBPNG ==
  /\ call.fn = "embedLSBPNG"
  /\ ~ret.done
  /\ \E embedded \in {embedLSBPNG(call.arg.fileBuffer, call.arg.payload)} :
       \E extracted \in {IF embedded.err = "" THEN extractLSBPNG(embedded.val).val
                          ELSE NullBuf} :
         ret' = [done |-> TRUE,
                 val |-> [embedded |-> embedded, extracted |-> extracted,
                          unwrapped |-> IF extracted = NullBuf THEN NullBuf
                                        ELSE unwrapPayload(extracted)]]
  /\ UNCHANGED fnFrame

\* the pixels of the host and the number of bits the embedding of d needs
LsbPixels == PngSyncRead(call.arg.fileBuffer).data

LsbFits ==
  /\ PngSyncRead(call.arg.fileBuffer).err = ""
  /\ 32 + 8 * (Len(call.arg.payload) + 8) <= 3 * (Len(LsbPixels) \div 4)

\* C21 as stated: sequential-LSB round trip.  For every RGBA buffer of w * h
\* pixels and every payload d with 32 + 8 * (|d| + 8) <= 3 * w * h the
\* extractor returns version, length, d from the embedder's output and
\* unwrapPayload returns d.
C21_LsbRoundTrip ==
  (ret.done /\ call.fn = "embedLSBPNG" /\ LsbFits) =>
    /\ ret.val.embedded.err = ""
    /\ ret.val.extracted = <<0, 0, 0, 1>> \o u32be(Len(call.arg.payload)) \o call.arg.payload
    /\ ret.val.unwrapped = call.arg.payload

\* C21 as the code has it: the extractor returns version, length, d for every
\* payload that fits; unwrapPayload returns d when d is not empty, and the
\* eight bytes of the wrapper when it is.
C21_LsbRoundTripNonEmpty ==
  (ret.done /\ call.fn = "embedLSBPNG") =>
    IF LsbFits
      THEN /\ ret.val.embedded.err = ""
           /\ ret.val.extracted
                = <<0, 0, 0, 1>> \o u32be(Len(call.arg.payload)) \o call.arg.payload
           /\ ret.val.unwrapped = IF Len(call.arg.payload) > 0 THEN call.arg.payload
                                  ELSE <<0, 0, 0, 1, 0, 0, 0, 0>>
           /\ \A q \in 1..Len(LsbPixels) :
                /\ PngSyncRead(ret.val.embedded.val).data[q] \div 2 = LsbPixels[q] \div 2
                /\ q % 4 = 0 => PngSyncRead(ret.val.embedded.val).data[q] = LsbPixels[q]
    ELSE ret.val.embedded.err # "" /\ ret.val.extracted = NullBuf

\* a payload of four bytes filled a buffer of 43 pixels but for one bit and
\* came back
C21_Witness ==
  /\ ret.done
  /\ call.fn = "embedLSBPNG"
  /\ call.arg.fileBuffer = PngFile(43, 1)
  /\ call.arg.payload = <<129, 2, 3, 4>>
  /\ ret.val.extracted = <<0, 0, 0, 1, 0, 0, 0, 4, 129, 2, 3, 4>>
  /\ ret.val.unwrapped = <<129, 2, 3, 4>>

\* a press of ESCAPE the program acts on
EscapePressed == EncEscape \/ DecEscape \/ KeyEscape

\* C22: a press of ESCAPE exits the application (exitProgress is called),
\* whichever tab is selected and whichever wizard screen is shown.
C22_EscapeExits == [][EscapePressed => exited']_vars

\* what the code does: ESCAPE exits on the ">_" tab only; on the Encode and
\* the Decode tab it puts the wizard back on a fresh upload screen
C22_EscapeExitsOnFirstTabOnly ==
  [][/\ EscapePressed => (exited' <=> tabs[selected] = ">_")
     /\ EncEscape => (encState' = EncInitState /\ ~exited')
     /\ DecEscape => (decState' = DecInitState /\ ~exited')]_vars

\* the application has exited from the ">_" tab
C22_Witness == exited /\ tabs[selected] = ">_"

\* ------------------------------------------- the container round trips
\* blobs: the magic alone, and a header with a ciphertext of 0 to 3 bytes
RtBlob(n) == CapHeader([n |-> n]) \o CapCiphertext([n |-> n])

RtBlobs == {MAGIC} \cup {RtBlob(n) : n \in 0..3}

\* the largest blob of one JPEG segment
RtLargestBlob == MAGIC \o [i \in 1..(JPEG_MAX_BLOB - 4) |-> (3 * i) % 256]

\* JPEG carriers: those of JpegCarriers that start with FF D8, and the JPEG
\* that holds the payload of an earlier session
RtJpegCarriers == {c \in JpegCarriers : isJpeg(c)} \cup {OldFile}

RtJpegCalls ==
  [original : RtJpegCarriers, blob : RtBlobs]
    \cup {[original |-> JpgFile, blob |-> RtLargestBlob]}

\* insertJpegAPP15, and extractJpegAPP15 applied to what it returned
ApplyJpegRoundTrip ==
  /\ call.fn = "insertJpegAPP15, extractJpegAPP15"
  /\ ~ret.done
  /\ \E inserted \in {insertJpegAPP15(call.arg.original, call.arg.blob)} :
       ret' = [done |-> TRUE,
               val |-> [inserted |-> inserted,
                        extracted |-> IF inserted.err = "" THEN extractJpegAPP15(inserted.val)
                                      ELSE NullBuf]]
  /\ UNCHANGED fnFrame

\* C23: JPEG backend round trip.  For every carrier that starts with FF D8
\* and every blob that begins with ECAP and has at most 65,533 bytes,
\* extractJpegAPP15(insertJpegAPP15(carrier, blob)) returns the blob.
C23_JpegRoundTrip ==
  (ret.done /\ call.fn = "insertJpegAPP15, extractJpegAPP15"
     /\ isJpeg(call.arg.original) /\ HasAt(call.arg.blob, 0, MAGIC)
     /\ Len(call.arg.blob) <= 65533) =>
    ret.val.extracted = call.arg.blob

\* what the code does: the blob comes back when every segment of the carrier
\* before the insertion point lies within the file and none of them begins
\* with ECAP; a carrier that holds such a segment gives that segment back
C23_JpegRoundTripOnCleanCarriers ==
  (ret.done /\ call.fn = "insertJpegAPP15, extractJpegAPP15") =>
    /\ ret.val.inserted.err = ""
    /\ (JpegInsertPos(call.arg.original, 2) <= Len(call.arg.original)
          /\ extractJpegAPP15(call.arg.original) = NullBuf)
         => ret.val.extracted = call.arg.blob
    /\ extractJpegAPP15(call.arg.original) # NullBuf
         => ret.val.extracted = extractJpegAPP15(call.arg.original)

\* a blob inserted into the JPEG of an earlier session: the earlier blob came back
C23_Witness ==
  /\ ret.done
  /\ call.fn = "insertJpegAPP15, extractJpegAPP15"
  /\ call.arg.original = OldFile
  /\ call.arg.blob = RtBlob(2)
  /\ ret.val.extracted # call.arg.blob
  /\ ret.val.extracted = extractJpegAPP15(OldFile)

\* a blob appended behind a segment that runs past the end of the carrier:
\* nothing came back
C23_TruncatedSegment ==
  /\ ret.done
  /\ call.fn = "insertJpegAPP15, extractJpegAPP15"
  /\ call.arg.original = <<255, 216, 255, 224, 0, 200, 1, 2>>
  /\ ret.val.inserted.err = ""
  /\ ret.val.extracted = NullBuf

\* WebP carriers: one chunk with its pad byte; no chunk at all; the prefix with
\* its top bits set; one that holds an ECAP chunk already; a chunk that runs
\* past the end of the file; an odd chunk with no pad byte behind it
RtWebPPrefix == RIFF \o u32le(4) \o WEBP

RtWebPOld == insertWebPChunk(CarrierBytes("webp"), RtBlob(0)).val

RtWebPTruncated == RtWebPPrefix \o <<86, 80, 56, 32>> \o u32le(100) \o <<7, 7>>

RtWebPUnpadded == RtWebPPrefix \o <<86, 80, 56, 32>> \o u32le(1) \o <<7>>

RtWebPCarriers ==
  {CarrierBytes("webp"), RtWebPPrefix,
   <<210, 201, 198, 198, 4, 0, 0, 0, 215, 197, 194, 208>>,
   RtWebPOld, RtWebPTruncated, RtWebPUnpadded}

RtWebPCalls == [original : RtWebPCarriers, blob : RtBlobs \cup {<<>>, <<9>>, <<9, 8>>}]

\* insertWebPChunk, and extractWebPChunk applied to what it returned
ApplyWebPRoundTrip ==
  /\ call.fn = "insertWebPChunk, extractWebPChunk"
  /\ ~ret.done
  /\ \E inserted \in {insertWebPChunk(call.arg.original, call.arg.blob)} :
       ret' = [done |-> TRUE,
               val |-> [inserted |-> inserted,
                        extracted |-> IF inserted.err = "" THEN extractWebPChunk(inserted.val)
                                      ELSE NullBuf]]
  /\ UNCHANGED fnFrame

\* the chunks of a file from pos on fill it exactly: each has its 8-byte
\* header, its data and, when the size is odd, its pad byte within the file
RECURSIVE WebPChunksFill(_, _)
WebPChunksFill(original, pos) ==
  \/ pos = Len(original)
  \/ /\ pos + 8 <= Len(original)
     /\ readUInt32LE(original, pos + 4) <= Len(original) - (pos + 8)
     /\ WebPChunksFill(original,
                       pos + 8 + readUInt32LE(original, pos + 4)
                         + (readUInt32LE(original, pos + 4) % 2))

\* C24: WebP backend round trip.  For every carrier with the RIFF????WEBP
\* prefix and every blob, extractWebPChunk(insertWebPChunk(carrier, blob))
\* returns the blob, without the pad byte.
C24_WebPRoundTrip ==
  (ret.done /\ call.fn = "insertWebPChunk, extractWebPChunk"
     /\ isWebP(call.arg.original)) =>
    ret.val.extracted = call.arg.blob

\* what the code does: the blob comes back when the chunks of the carrier
\* fill it exactly and none of them is an ECAP chunk; a carrier that holds
\* an ECAP chunk gives the data of that chunk back
C24_WebPRoundTripOnCleanCarriers ==
  (ret.done /\ call.fn = "insertWebPChunk, extractWebPChunk") =>
    /\ ret.val.inserted.err = ""
    /\ (WebPChunksFill(call.arg.original, 12)
          /\ extractWebPChunk(call.arg.original) = NullBuf)
         => ret.val.extracted = call.arg.blob
    /\ extractWebPChunk(call.arg.original) # NullBuf
         => ret.val.extracted = extractWebPChunk(call.arg.original)

\* a 61-byte blob appended to the WebP that holds the chunk of an earlier
\* session: the earlier blob came back
C24_Witness ==
  /\ ret.done
  /\ call.fn = "insertWebPChunk, extractWebPChunk"
  /\ call.arg.original = RtWebPOld
  /\ call.arg.blob = RtBlob(1)
  /\ ret.val.extracted = RtBlob(0)

\* an odd blob appended to a well-formed carrier came back without its pad byte
C24_OddBlobReturned ==
  /\ ret.done
  /\ call.fn = "insertWebPChunk, extractWebPChunk"
  /\ call.arg.original = CarrierBytes("webp")
  /\ call.arg.blob = RtBlob(1)
  /\ Len(ret.val.inserted.val) = Len(call.arg.original) + 8 + Len(call.arg.blob) + 1
  /\ ret.val.extracted = call.arg.blob

\* a blob appended behind a chunk that runs past the end of the file, or
\* behind an odd chunk without pad byte: nothing came back
C24_MalformedCarrier ==
  /\ ret.done
  /\ call.fn = "insertWebPChunk, extractWebPChunk"
  /\ call.arg.original \in {RtWebPTruncated, RtWebPUnpadded}
  /\ ret.val.extracted = NullBuf

\* a header whose random salt begins with the bytes of "ECAPTR", and a
\* ciphertext that holds them followed by 00 00 00 01 and one byte
RtSaltBlob ==
  buildHeader([encrypted |-> TRUE, randomized |-> TRUE, bitsPerChannel |-> 1,
               channelsMask |-> CHANNELS_MASK_RGB, payloadLen |-> 2, kdf |-> KDF_SCRYPT,
               logN |-> SCRYPT_LOGN_PREFERRED, r |-> SCRYPT_R, p |-> SCRYPT_P,
               salt |-> TRAILER_SIG \o [i \in 1..10 |-> i], iv |-> [i \in 1..12 |-> 2 * i],
               tag |-> [i \in 1..16 |-> 3 * i]]).val \o <<7, 14>>

RtSigCiphertext == TRAILER_SIG \o <<0, 0, 0, 1, 9>>

RtSigBlob == CapHeader([n |-> Len(RtSigCiphertext)]) \o RtSigCiphertext

RtTrailerCarriers ==
  {<<>>, <<1, 2, 3>>, TRAILER_SIG, appendTrailer(<<1, 2, 3>>, RtBlob(0)), TwoFile}

RtTrailerCalls ==
  [original : RtTrailerCarriers, blob : {RtBlob(n) : n \in 0..3} \cup {RtSaltBlob, RtSigBlob}]

\* appendTrailer, and extractTrailer applied to what it returned
ApplyTrailerRoundTrip ==
  /\ call.fn = "appendTrailer, extractTrailer"
  /\ ~ret.done
  /\ \E appended \in {appendTrailer(call.arg.original, call.arg.blob)} :
       ret' = [done |-> TRUE,
               val |-> [appended |-> appended, extracted |-> extractTrailer(appended)]]
  /\ UNCHANGED fnFrame

\* C25: trailer round trip.  For every carrier and every blob = header ||
\* ciphertext, extractTrailer(appendTrailer(carrier, blob)) returns the blob.
C25_TrailerRoundTrip ==
  (ret.done /\ call.fn = "appendTrailer, extractTrailer") =>
    ret.val.extracted = call.arg.blob

\* what the code does: the output is carrier || ECAPTR || be32(|blob|) || blob
\* with nothing after it, the extractor reads behind the last ECAPTR of the
\* file, and the blob comes back when it does not hold the bytes of ECAPTR
C25_TrailerRoundTripOnCleanBlobs ==
  (ret.done /\ call.fn = "appendTrailer, extractTrailer") =>
    LET n == Len(call.arg.original)
        out == ret.val.appended
    IN /\ Len(out) = n + 6 + 4 + Len(call.arg.blob)
       /\ Slice(out, 0, n) = call.arg.original
       /\ HasAt(out, n, TRAILER_SIG)
       /\ readUInt32BE(out, n + 6) = Len(call.arg.blob)
       /\ SliceFrom(out, n + 10) = call.arg.blob
       /\ LastIndexOf(call.arg.blob, TRAILER_SIG) < 0 =>
            /\ LastIndexOf(out, TRAILER_SIG) = n
            /\ ret.val.extracted = call.arg.blob
       /\ LastIndexOf(call.arg.blob, TRAILER_SIG) >= 0 =>
            LastIndexOf(out, TRAILER_SIG) = n + 10 + LastIndexOf(call.arg.blob, TRAILER_SIG)

\* a blob whose salt begins with the bytes of ECAPTR was appended: the
\* extractor read its length from the salt and returned null
C25_Witness ==
  /\ ret.done
  /\ call.fn = "appendTrailer, extractTrailer"
  /\ call.arg.original = <<1, 2, 3>>
  /\ call.arg.blob = RtSaltBlob
  /\ ret.val.extracted = NullBuf

\* a blob whose ciphertext holds ECAPTR 00 00 00 01 09: the byte 09 came back
C25_CiphertextWithSignature ==
  /\ ret.done
  /\ call.fn = "appendTrailer, extractTrailer"
  /\ call.arg.blob = RtSigBlob
  /\ ret.val.extracted = <<9>>

\* a blob appended to a carrier that ends with an earlier trailer came back
C25_SecondTrailerReturned ==
  /\ ret.done
  /\ call.fn = "appendTrailer, extractTrailer"
  /\ call.arg.original = TwoFile
  /\ call.arg.blob = RtBlob(3)
  /\ ret.val.extracted = RtBlob(3)

\* the 0-based offsets of the 480 bytes writeHeaderBits and readHeaderBits use
CapHeaderOffsets == {enumerateRGBByteIndices(CapPixelsIn)[i] : i \in 1..(HEADER_SIZE * 8)}

\* C26: PNG backend.  The header positions (bit 0 of the first 480 RGB bytes)
\* and the payload positions (planes of the RGB bytes from index 480 on) are
\* disjoint and never an alpha byte; after writeHeaderBits and embedBits,
\* readHeaderBits returns the 60 header bytes and extractBits over the same
\* permuted positions returns the ciphertext, most significant bit first.
C26_PngHeaderAndPayload ==
  (capOut.done /\ capIn.kind = "png" /\ capOut.err = "" /\ capOut.written # NullBuf) =>
    \E perm \in {CapPermuted}, hdr \in {CapHeaderOffsets}, out \in {CapPixelsOut} :
      /\ Cardinality(hdr) = HEADER_SIZE * 8
      /\ \A o \in hdr : o % 4 # 3 /\ RgbRank(o) < HEADER_SIZE * 8
      /\ \A k \in 1..Len(perm) :
           /\ perm[k].byteIndex % 4 # 3
           /\ RgbRank(perm[k].byteIndex) >= HEADER_SIZE * 8
           /\ perm[k].byteIndex < Len(out)
           /\ perm[k].plane = 0
           /\ perm[k].byteIndex \notin hdr
      /\ readHeaderBits(out) = [err |-> "", val |-> CapHeader(capIn)]
      /\ Len(CapHeader(capIn)) = HEADER_SIZE
      /\ extractBits(out, perm, capIn.n) = [err |-> "", val |-> CapCiphertext(capIn)]

\* a PNG took a ciphertext of three bytes, and the header read back from it
\* says so
C26_Witness ==
  /\ capOut.done
  /\ capIn.kind = "png"
  /\ capIn.n = 3
  /\ capOut.err = ""
  /\ capOut.written # NullBuf
  /\ parseHeader(readHeaderBits(CapPixelsOut).val).meta.payloadLen = 3
  /\ extractBits(CapPixelsOut, CapPermuted, 3).val = <<7, 14, 21>>

\* ------------------------------------------------------- the shuffle alone
\* lists of 0 to MaxShuffleLen payload positions, as buildPayloadPositions
\* numbers them
MaxShuffleLen == 40

ShufflePositionsOf(n) ==
  [k \in 1..n |-> [byteIndex |-> 640 + 4 * ((k - 1) \div 3) + ((k - 1) % 3), plane |-> 0]]

ShuffleArgs == [key : PosKeys, n : 0..MaxShuffleLen, warm : {0, 3}]

\* the generator of a call: fresh, or with `warm` bytes already drawn from it
ShufflePrng(a) == PrngAfter(NewHmacPRNG(HmacSha256(a.key, PERMUTE_LABEL)), a.warm)

\* shufflePositions, with the four bytes of every draw and the index j of
\* every step i (the step i makes the draw number length - i)
ApplyShufflePositions ==
  /\ call.fn = "shufflePositions"
  /\ ~ret.done
  /\ \E g \in {ShufflePrng(call.arg)}, positions \in {ShufflePositionsOf(call.arg.n)} :
       \E draws \in {[i \in 1..(call.arg.n - 1) |-> nextUint32(g, call.arg.n - 1 - i)]} :
         ret' = [done |-> TRUE,
                 val |-> [shuffled |-> shufflePositions(positions, g),
                          draws |-> draws,
                          js |-> [i \in 1..(call.arg.n - 1) |-> U32Mod(draws[i], i + 1)]]]
  /\ UNCHANGED fnFrame

\* the loop of a Fisher-Yates shuffle, from step i down to step 1: swap the
\* elements i and js[i] (0-based)
RECURSIVE FisherYates(_, _, _)
FisherYates(positions, js, i) ==
  IF i < 1 THEN positions
  ELSE FisherYates(Swap(positions, i + 1, js[i] + 1), js, i - 1)

\* C27: shufflePositions is a Fisher-Yates shuffle: i runs from
\* |positions| - 1 down to 1, j = nextUint32() mod (i + 1), nextUint32 is the
\* unsigned big-endian value of four consecutive bytes of the generator;
\* every j is in 0..i and the result is a permutation of the positions.
C27_FisherYates ==
  (ret.done /\ call.fn = "shufflePositions") =>
    LET n == call.arg.n
        g == ShufflePrng(call.arg)
        positions == ShufflePositionsOf(n)
        out == ret.val.shuffled
    IN /\ \A i \in 1..(n - 1) :
            /\ ret.val.js[i] \in 0..i
            /\ ret.val.draws[i] = [b \in 1..4 |-> nextByte(g, 4 * (n - 1 - i) + b - 1)]
            /\ ret.val.draws[i][1] < 128 =>
                 ret.val.js[i] = (ret.val.draws[i][1] * 16777216 + ret.val.draws[i][2] * 65536
                                    + ret.val.draws[i][3] * 256 + ret.val.draws[i][4]) % (i + 1)
            /\ ret.val.draws[i][1] >= 128 =>
                 ret.val.js[i] = (((ret.val.draws[i][1] * 256 + ret.val.draws[i][2]) % (i + 1))
                                     * (65536 % (i + 1))
                                    + ret.val.draws[i][3] * 256 + ret.val.draws[i][4]) % (i + 1)
       /\ out = FisherYates(positions, ret.val.js, n - 1)
       /\ Len(out) = n
       /\ {out[k] : k \in 1..n} = {positions[k] : k \in 1..n}
       /\ \A a, b \in 1..n : out[a] = out[b] => a = b

\* forty positions were shuffled with draws from more than one block of the
\* generator, one of them with its top bit set, and left their order
C27_Witness ==
  /\ ret.done
  /\ call.fn = "shufflePositions"
  /\ call.arg.n = MaxShuffleLen
  /\ call.arg.warm = 3
  /\ ret.val.shuffled # ShufflePositionsOf(MaxShuffleLen)
  /\ \E i \in 1..(MaxShuffleLen - 1) : ret.val.draws[i][1] >= 128
  /\ \E i \in 2..(MaxShuffleLen - 1) : ret.val.js[i] = i

\* ------------------------------------------ the header the encoder builds
\* processEncoding on each kind of carrier, with messages of one and two
\* characters (one to four bytes of UTF-8), on devices with memory for
\* N = 2^11 .. 2^16
HdrMessages ==
  {<<65>>, <<233>>, <<65279>>, <<65, 66>>, <<65, 65279>>}

HdrArgs == [carrier : {"png", "jpg", "webp", "bin"}, message : HdrMessages, devLogN : 11..16]

\* the 60 header bytes in a file the encoder wrote: in the pixels of a PNG,
\* else at the head of the container blob
HdrStored(file) ==
  IF PngSyncRead(file).err = "" THEN readHeaderBits(PngSyncRead(file).data).val
  ELSE Slice(ContainerBlob(file).blob, 0, HEADER_SIZE)

\* processEncoding from the key derivation on; with it the header bytes in the
\* output, the ciphertext of the message under the key, and the blob a
\* container backend was handed
ApplyProcessEncoding ==
  /\ call.fn = "processEncoding"
  /\ ~ret.done
  /\ \E enc \in {EncodeRun(CarrierBytes(call.arg.carrier), Ext(call.arg.carrier),
                            call.arg.message, <<97>>, KeySalt, KeyIv, call.arg.devLogN, "ok")} :
       ret' = [done |-> TRUE,
               val |-> IF enc.written = NullBuf
                         THEN [enc |-> enc, header |-> <<>>, ciphertext |-> <<>>,
                               blob |-> NullBuf]
                       ELSE [enc |-> enc,
                             header |-> HdrStored(enc.written),
                             ciphertext |-> aesGcmEncrypt(enc.key, KeyIv,
                                                          textToBytes(call.arg.message)).ciphertext,
                             blob |-> IF enc.how = "png" THEN NullBuf
                                      ELSE ContainerBlob(enc.written).blob]]
  /\ UNCHANGED fnFrame

\* C28: in every header the encoder builds, flags bit 0 (encrypted) is 1, and
\* flags bit 1 (randomized) is 1 exactly when the carrier is embedded by the
\* PNG backend: it is 0 for the JPEG, WebP and trailer backends.
C28_RandomizedOnlyForPng ==
  (ret.done /\ call.fn = "processEncoding" /\ ret.val.enc.written # NullBuf) =>
    /\ BitOf(ret.val.header[6], 0) = 1
    /\ BitOf(ret.val.header[6], 1) = 1 <=> ret.val.enc.how = "png"

\* what the code does: the flags byte is 3 in every header, whatever the backend
C28_FlagsAlwaysThree ==
  (ret.done /\ call.fn = "processEncoding" /\ ret.val.enc.written # NullBuf) =>
    /\ Len(ret.val.header) = HEADER_SIZE
    /\ ret.val.header[6] = FLAG_ENCRYPTED + FLAG_RANDOMIZED
    /\ parseHeader(ret.val.header).meta.randomized

\* a JPEG took the blob in a segment, and its header says the payload is
\* randomized
C28_Witness ==
  /\ ret.done
  /\ call.fn = "processEncoding"
  /\ call.arg.carrier = "jpg"
  /\ ret.val.enc.how = "jpeg"
  /\ ret.val.blob # NullBuf
  /\ BitOf(ret.val.header[6], 1) = 1

\* C29: every blob the encoder embeds has the magic ECAP, version 1,
\* bits_per_channel 1, channels_mask 0b111, kdf 1, 12 <= logN <= 15, r = 8,
\* p = 1 and payload_len = |plaintext| = |ciphertext|; the blob handed to the
\* JPEG, WebP or trailer backend has exactly 60 + payload_len bytes.
C29_HeaderFields ==
  (ret.done /\ call.fn = "processEncoding" /\ ret.val.enc.written # NullBuf) =>
    \E h \in {ret.val.header}, plaintext \in {textToBytes(call.arg.message)} :
      /\ Len(h) = 60
      /\ Slice(h, 0, 4) = <<69, 67, 65, 80>>
      /\ h[5] = 1
      /\ h[7] = 1
      /\ h[8] = 7
      /\ h[13] = 1
      /\ h[14] >= 12 /\ h[14] <= 15
      /\ h[14] = Min(call.arg.devLogN, 15)
      /\ h[15] = 8
      /\ h[16] = 1
      /\ readUInt32BE(h, 8) = Len(plaintext)
      /\ Len(ret.val.ciphertext) = Len(plaintext)
      /\ ret.val.enc.how # "png" =>
           /\ ret.val.blob # NullBuf
           /\ Len(ret.val.blob) = 60 + readUInt32BE(h, 8)
           /\ ret.val.blob = h \o ret.val.ciphertext

\* a WebP took a blob with a four-byte ciphertext, its key derived at
\* N = 2^12
C29_Witness ==
  /\ ret.done
  /\ call.fn = "processEncoding"
  /\ call.arg.carrier = "webp"
  /\ call.arg.devLogN = 12
  /\ ret.val.enc.how = "webp"
  /\ ret.val.header[14] = 12
  /\ Len(ret.val.blob) = 64

\* ------------------------------------------- decoding a container blob
\* files that hold header || ciphertext in a JPEG segment, a WebP chunk or a
\* trailer: the ciphertext and the tag of a message under the password "a",
\* and a header whose payload_len field says `stated`
BlobArgs ==
  [carrier : {"jpg", "webp", "bin"}, message : {<<65>>, <<65, 66>>, <<65, 233>>},
   stated : 0..4]

BlobKey == Scrypt(<<97>>, KeySalt, SCRYPT_LOGN_PREFERRED, SCRYPT_R, SCRYPT_P)

BlobFile(a) ==
  Bind(aesGcmEncrypt(BlobKey, KeyIv, textToBytes(a.message)), LAMBDA enc :
    embedAuto(CarrierBytes(a.carrier), Ext(a.carrier),
              buildHeader([encrypted |-> TRUE, randomized |-> TRUE, bitsPerChannel |-> 1,
                           channelsMask |-> CHANNELS_MASK_RGB, payloadLen |-> a.stated,
                           kdf |-> KDF_SCRYPT, logN |-> SCRYPT_LOGN_PREFERRED,
                           r |-> SCRYPT_R, p |-> SCRYPT_P, salt |-> KeySalt, iv |-> KeyIv,
                           tag |-> enc.tag]).val,
              enc.ciphertext, BlobKey).val)

\* processDecoding of such a file under the password, with the blob its
\* extractors return
ApplyDecodeContainer ==
  /\ call.fn = "processDecoding"
  /\ ~ret.done
  /\ \E file \in {BlobFile(call.arg)} :
       ret' = [done |-> TRUE,
               val |-> [blob |-> ContainerBlob(file).blob,
                        dec |-> DecodeRun(file, <<97>>, SCRYPT_LOGN_PREFERRED)]]
  /\ UNCHANGED fnFrame

\* what processDecoding leaves in state.decodedMessage when it decrypts the
\* bytes ciphertext of the blob under the key
BlobDecrypts(blob, ciphertext) ==
  Bind(parseHeader(Slice(blob, 0, HEADER_SIZE)).meta, LAMBDA meta :
    Bind(aesGcmDecrypt(BlobKey, meta.iv, ciphertext, meta.tag), LAMBDA pt :
      IF pt.err # "" THEN NullBuf ELSE bytesToTextSafe(pt.val)))

\* C30: for the JPEG, WebP and trailer backends decode decrypts exactly
\* blob[60 : 60 + payload_len], for every extracted blob.
C30_DecryptsPayloadLenBytes ==
  (ret.done /\ call.fn = "processDecoding") =>
    ret.val.dec.decodedMessage =
      BlobDecrypts(ret.val.blob,
                   Slice(ret.val.blob, HEADER_SIZE,
                         HEADER_SIZE + parseHeader(Slice(ret.val.blob, 0, HEADER_SIZE)).meta.payloadLen))

\* what the code does: it decrypts every byte of the blob after the header,
\* whatever payload_len says, and nothing compares payload_len with the
\* bytes available
C30_DecryptsRestOfBlob ==
  (ret.done /\ call.fn = "processDecoding") =>
    /\ Len(ret.val.blob) = HEADER_SIZE + Len(textToBytes(call.arg.message))
    /\ parseHeader(Slice(ret.val.blob, 0, HEADER_SIZE)).meta.payloadLen = call.arg.stated
    /\ ret.val.dec.decodedMessage = BlobDecrypts(ret.val.blob, SliceFrom(ret.val.blob, HEADER_SIZE))
    /\ ret.val.dec.decodedMessage = call.arg.message
    /\ ret.val.dec.error = NoError

\* a trailer whose header states one byte and whose ciphertext has two: both
\* were decrypted
C30_Witness ==
  /\ ret.done
  /\ call.fn = "processDecoding"
  /\ call.arg.carrier = "bin"
  /\ call.arg.stated = 1
  /\ ret.val.dec.via = "trailer"
  /\ Len(ret.val.blob) = HEADER_SIZE + 2
  /\ ret.val.dec.decodedMessage = <<65, 66>>

\* a JPEG whose header states four bytes and whose ciphertext has one: the
\* one byte was decrypted and no error was reported
C30_StatedBeyondBlob ==
  /\ ret.done
  /\ call.fn = "processDecoding"
  /\ call.arg.carrier = "jpg"
  /\ call.arg.stated = 4
  /\ ret.val.dec.via = "jpeg"
  /\ Len(ret.val.blob) = HEADER_SIZE + 1
  /\ ret.val.dec.decodedMessage = <<65>>
  /\ ret.val.dec.error = NoError

\* ------------------------------------------------- the JPEG marker walk
\* the marker code at the 0-based offset p is a restart marker RSTn
JpegIsRestart(original, p) == original[p + 2] >= 208 /\ original[p + 2] <= 215

\* the walk ends at p: fewer than four bytes are left, the byte is not FF, the
\* code is SOS or EOI, the length field is below 2, or (only when restarts
\* stop the walk) the code is RSTn
JpegWalkEnds(original, p, restartStops) ==
  \/ p + 4 > Len(original)
  \/ original[p + 1] # 255
  \/ original[p + 2] = 218
  \/ original[p + 2] = 217
  \/ IF JpegIsRestart(original, p) THEN restartStops
     ELSE readUInt16BE(original, p + 2) < 2

\* where the walk goes from p when it does not end there
JpegWalkStep(original, p) ==
  IF JpegIsRestart(original, p) THEN p + 2 ELSE p + 2 + readUInt16BE(original, p + 2)

\* the walk from offset 2 comes to off
RECURSIVE JpegWalkReaches(_, _, _)
JpegWalkReaches(original, off, restartStops) ==
  \/ off = 2
  \/ \E p \in 2..Min(off - 2, Len(original) - 4) :
       /\ ~JpegWalkEnds(original, p, restartStops)
       /\ JpegWalkStep(original, p) = off
       /\ JpegWalkReaches(original, p, restartStops)

\* the output holds the segment at the offset where the walk ends (at the end
\* of the file when that offset lies beyond it)
JpegInsertedWhereWalkEnds(restartStops) ==
  (ret.done /\ call.fn = "insertJpegAPP15" /\ isJpeg(call.arg.original)
     /\ call.arg.n <= JPEG_MAX_BLOB) =>
    /\ ret.val.err = ""
    /\ \E off \in 2..(Len(call.arg.original) + 65536) :
         /\ JpegWalkReaches(call.arg.original, off, restartStops)
         /\ JpegWalkEnds(call.arg.original, off, restartStops)
         /\ JpegInsertedAt(ret.val.val, call.arg.original, JpegBlob(call.arg.n),
                           Min(off, Len(call.arg.original)))

CapacityArgs == [pixels : 159..166, bitsPerChannel : {1, 2}, n : {0, 1, 2, 3, 60}]

\* capacityBits, the position list of buildPayloadPositions, and embedBits for
\* a ciphertext that passed the capacity check of embedAuto
ApplyCapacityBits ==
  /\ call.fn = "capacityBits"
  /\ ~ret.done
  /\ \E pixels \in {PosBufferA(call.arg.pixels)} :
       \E positions \in {buildPayloadPositions(pixels, call.arg.bitsPerChannel)} :
         ret' = [done |-> TRUE,
                 val |-> [capacity |-> capacityBits(pixels, call.arg.bitsPerChannel),
                          positions |-> Len(positions),
                          usable |-> Len(SliceFrom(enumerateRGBByteIndices(pixels),
                                                   HEADER_SIZE * 8)),
                          embedErr |->
                            IF capacityBits(pixels, call.arg.bitsPerChannel) < call.arg.n * 8
                              THEN "Carrier too small."
                            ELSE embedBits(pixels, positions, PosPayload(call.arg.n)).err]]
  /\ UNCHANGED fnFrame

\* C33: for bits_per_channel in {1, 2}, capacityBits(pixels, bits_per_channel)
\* equals the length of the payload position list,
\* |rgb_indices[480:]| * bits_per_channel; so a ciphertext that passes the
\* capacity check never runs out of positions in embedBits.
C33_CapacityIsListLength ==
  (ret.done /\ call.fn = "capacityBits") =>
    /\ ret.val.positions = ret.val.usable * call.arg.bitsPerChannel
    /\ ret.val.capacity = ret.val.positions
    /\ ret.val.embedErr # "Carrier capacity too small."

\* what the code does: the list has |rgb_indices[480:]| * bits_per_channel
\* positions; capacityBits is 3 * pixels * bits_per_channel - 480, which is
\* the list length at one bit per channel on a carrier of 160 pixels or more,
\* and 480 more than the list length at two bits per channel
C33_CapacityAtTwoBitsOverstated ==
  (ret.done /\ call.fn = "capacityBits") =>
    /\ ret.val.positions = ret.val.usable * call.arg.bitsPerChannel
    /\ ret.val.capacity = 3 * call.arg.pixels * call.arg.bitsPerChannel - 480
    /\ (call.arg.bitsPerChannel = 1 /\ call.arg.pixels >= 160) =>
         /\ ret.val.capacity = ret.val.positions
         /\ ret.val.embedErr # "Carrier capacity too small."
    /\ (call.arg.bitsPerChannel = 2 /\ call.arg.pixels >= 160) =>
         ret.val.capacity = ret.val.positions + 480

\* 163 pixels at two bits per channel: capacityBits says 498 bits, the list
\* has 18 positions, and a ciphertext of 3 bytes passed the check and ran out
\* of positions in embedBits
C33_Witness ==
  /\ ret.done
  /\ call.fn = "capacityBits"
  /\ call.arg = [pixels |-> 163, bitsPerChannel |-> 2, n |-> 3]
  /\ ret.val.capacity = 498
  /\ ret.val.positions = 18
  /\ ret.val.embedErr = "Carrier capacity too small."

\* ------------------------------------------ embedAuto and its arguments
\* The buffers processEncoding holds while it embeds: the carrier read from
\* the disk, the header, the ciphertext and the key.  embedAuto receives
\* references to them.
EmbedBuffers(a) ==
  [fileBuffer |-> CarrierBytes(a.carrier), header |-> CapHeader([n |-> a.n]),
   ciphertext |-> CapCiphertext([n |-> a.n]), key |-> CapKey]

EmbedArgs == [carrier : {"png", "jpg", "webp", "bin"}, n : 0..2]

\* a variant of embedAuto's effect that zero-fills the key once the carrier is
\* embedded
EmbedAutoOn_WipesKey(bufs, ext) ==
  [out |-> embedAuto(bufs.fileBuffer, ext, bufs.header, bufs.ciphertext, bufs.key),
   bufs |-> [bufs EXCEPT !.key = Zeros(Len(bufs.key))]]

\* embedAuto with its effect on the buffers it was given: blob is a new
\* buffer (Buffer.concat), the pixels written by writeHeaderBits and embedBits
\* are those PNG.sync.read allocated, the positions and the generator are
\* locals, and the container backends build their result with slice and
\* concat; no statement writes to an argument
EmbedAutoOn(bufs, ext) ==
  [out |-> embedAuto(bufs.fileBuffer, ext, bufs.header, bufs.ciphertext, bufs.key),
   bufs |-> bufs]

\* the two embeddings of one processEncoding run: at 66% of the progress and
\* after the loop, on the same buffers
ApplyEmbedTwice ==
  /\ call.fn = "embedAuto, embedAuto"
  /\ ~ret.done
  /\ \E mid \in {EmbedAutoOn(EmbedBuffers(call.arg), Ext(call.arg.carrier))} :
       ret' = [done |-> TRUE,
               val |-> [mid |-> mid, final |-> EmbedAutoOn(mid.bufs, Ext(call.arg.carrier))]]
  /\ UNCHANGED fnFrame

EncodingStep ==
  StartEncoding \/ \E salt \in Salts, iv \in IVs, io \in IoOutcomes : FinishEncoding(salt, iv, io)

DecodingStep == StartDecoding \/ FinishDecoding

\* C35: while a wizard is on the processing screen every key, ESCAPE
\* included, leaves its state unchanged (only the run itself changes it);
\* so a processEncoding (processDecoding) run is never started while an
\* earlier run of the same wizard has not finished, under any interleaving
\* of key events with the steps of the run.
C35_KeysIgnoredWhileProcessing ==
  /\ [](/\ inFlight.enc <= 1
        /\ inFlight.dec <= 1
        /\ inFlight.enc = 1 => (encState.screen = "processing" /\ ~encPending)
        /\ inFlight.dec = 1 => (decState.screen = "processing" /\ ~decPending)
        /\ encPending => encState.screen = "processing"
        /\ decPending => decState.screen = "processing")
  /\ [][/\ (encState.screen = "processing" /\ encState' # encState) => EncodingStep
        /\ (decState.screen = "processing" /\ decState' # decState) => DecodingStep
        /\ (encState.screen = "processing" /\ encPending') => encPending
        /\ (decState.screen = "processing" /\ decPending') => decPending]_vars

\* a processEncoding run is in flight and the keys pressed meanwhile went to
\* the decode wizard, which has armed its own run
C35_Witness ==
  /\ inFlight.enc = 1
  /\ encState.screen = "processing"
  /\ tabs[selected] = "Decode"
  /\ decState.screen = "processing"

\* ------------------------------------------------------------------ C36
\* C36: in both wizards state.password is non-null only on the processing
\* and complete screens, and no buffer that state.password has let go of was
\* left with a byte of the password in it: every one was zero-filled by
\* secureWipeBuffer before the reference was replaced or dropped.
C36_PasswordOnlyWhileRunning ==
  /\ encState.password # NullBuf => encState.screen \in {"processing", "complete"}
  /\ decState.password # NullBuf => decState.screen \in {"processing", "complete"}
  /\ ~pwDrops.leaked

\* processEncoding ran under a typed password and ended with the buffer
\* zero-filled and the reference dropped, while the decode wizard rests on
\* its complete screen with its password still stored
C36_Witness ==
  /\ encState.screen = "complete"
  /\ encLast.pw # <<>>
  /\ encState.password = NullBuf
  /\ decState.screen = "complete"
  /\ decState.password # NullBuf
  /\ decState.password # <<>>

\* ------------------------------------------------------------------ C37
\* text is the non-empty decoding of the bytes that AES-256-GCM under key and
\* the header's iv enciphers to ct, and the header's tag is the tag of ct
GcmVerifiedText(key, meta, ct, text) ==
  /\ AesGcmTag(key, meta.iv, ct) = meta.tag
  /\ \E pt \in {[i \in 1..Len(ct) |->
                   (ct[i] + 512 - ((GcmKeyStream(key, meta.iv) + 17 * i) % 256)) % 256]} :
       /\ aesGcmEncrypt(key, meta.iv, pt) = [ciphertext |-> ct, tag |-> meta.tag]
       /\ text = bytesToTextSafe(pt)
       /\ text # <<>>

\* the file holds, for the backend via, a header that parses and a
\* ciphertext that verifies under the key scrypt derives from password and
\* the header's salt and parameters, and text is its plaintext
DecodedFrom(fileBuffer, password, via, text) ==
  IF via = "png"
    THEN LET png == PngSyncRead(fileBuffer)
             hb  == readHeaderBits(png.data)
             pm  == parseHeader(hb.val)
             key == Scrypt(password, pm.meta.salt, pm.meta.logN, pm.meta.r, pm.meta.p)
             ct  == extractBits(png.data, PayloadOrder(png.data, pm.meta, key),
                                pm.meta.payloadLen)
         IN /\ png.err = ""
            /\ hb.err = ""
            /\ pm.err = ""
            /\ ct.err = ""
            /\ GcmVerifiedText(key, pm.meta, ct.val, text)
  ELSE LET blob == ContainerBlob(fileBuffer)
           pm   == parseHeader(Slice(blob.blob, 0, HEADER_SIZE))
           key  == Scrypt(password, pm.meta.salt, pm.meta.logN, pm.meta.r, pm.meta.p)
       IN /\ blob.via = via
          /\ blob.blob # NullBuf
          /\ pm.err = ""
          /\ GcmVerifiedText(key, pm.meta, SliceFrom(blob.blob, HEADER_SIZE), text)

\* C37: on the complete screen of the decode wizard with no error set,
\* decodedMessage is the non-empty plaintext of a blob of the file whose GCM
\* tag verified under the key derived from the entered password and the
\* header's salt and scrypt parameters; and a run that ended without a decoded
\* message has set an error.
C37_SuccessMeansVerified ==
  decState.screen = "complete" =>
    /\ decState.error = NoError =>
          /\ decState.decodedMessage # NullBuf
          /\ DecodedFrom(decState.buffer, decLast.pw, decLast.via, decState.decodedMessage)
    /\ (decState.decodedMessage = NullBuf \/ decState.decodedMessage = <<>>) =>
          decState.error # NoError

\* the success screen after a JPEG segment was decrypted under a typed password
C37_Witness ==
  /\ decState.screen = "complete"
  /\ decState.error = NoError
  /\ decLast.via = "jpeg"
  /\ decLast.pw = <<97>>
  /\ decState.decodedMessage = <<65>>

ReEncodeArgs ==
  [carrier : {"png", "jpg", "webp", "bin"}, p1 : {<<65>>, <<66>>}, w1 : {<<97>>, <<98>>},
   p2 : {<<65>>, <<66>>}, w2 : {<<>>, <<97>>, <<98>>}]

\* processEncoding of p1 under w1 on a carrier of the user, processEncoding
\* of p2 under w2 on the file that run wrote, processDecoding of the second
\* output under w2
ApplyReEncode ==
  /\ call.fn = "processEncoding, processEncoding, processDecoding"
  /\ ~ret.done
  /\ \E first \in {EncodeRun(CarrierBytes(call.arg.carrier), Ext(call.arg.carrier),
                              call.arg.p1, call.arg.w1, OldSalt, OldIv,
                              SCRYPT_LOGN_PREFERRED, "ok")} :
       \E second \in {EncodeRun(first.written, Ext(call.arg.carrier),
                                 call.arg.p2, call.arg.w2, KeySalt, KeyIv,
                                 SCRYPT_LOGN_PREFERRED, "ok")} :
         ret' = [done |-> TRUE,
                 val |-> [first |-> first, second |-> second,
                          dec |-> DecodeRun(second.written, call.arg.w2,
                                            SCRYPT_LOGN_PREFERRED)]]
  /\ UNCHANGED fnFrame

ReEncoded ==
  /\ call.fn = "processEncoding, processEncoding, processDecoding"
  /\ ret.done
  /\ ret.val.first.error = NoError
  /\ ret.val.second.error = NoError

\* C39: a second message encoded under W2 into the output of an earlier
\* encode of the same backend is what decoding the result under W2 returns,
\* for the PNG, JPEG, WebP and trailer backends.
C39_ReEncodeRoundTrip ==
  ReEncoded =>
    /\ ret.val.dec.error = NoError
    /\ ret.val.dec.decodedMessage = call.arg.p2

\* the same for the backends that overwrite or read the last payload: PNG
\* and trailer
C39_ReEncodePngAndTrailer ==
  (ReEncoded /\ ret.val.second.how \in {"png", "trailer"}) =>
    /\ ret.val.dec.error = NoError
    /\ ret.val.dec.decodedMessage = call.arg.p2

\* a JPEG encoded twice under one password: the first message comes back
C39_FirstMessageReturned ==
  /\ ReEncoded
  /\ ret.val.second.how = "jpeg"
  /\ call.arg.w1 = call.arg.w2
  /\ call.arg.p1 # call.arg.p2
  /\ ret.val.dec.error = NoError
  /\ ret.val.dec.decodedMessage = call.arg.p1

\* a WebP encoded twice under two passwords: the second password fails to
\* authenticate
C39_SecondPasswordRejected ==
  /\ ReEncoded
  /\ ret.val.second.how = "webp"
  /\ call.arg.w1 # call.arg.w2
  /\ ret.val.dec.error = <<"Processing failed: ", GCM_AUTH_MSG>>

\* a PNG encoded twice: the second message comes back under the second
\* password
C39_PngOverwritten ==
  /\ ReEncoded
  /\ ret.val.second.how = "png"
  /\ call.arg.w1 # call.arg.w2
  /\ call.arg.p1 # call.arg.p2
  /\ ret.val.dec.decodedMessage = call.arg.p2

\* ------------------------------------- the specification of the functions
\* One function of the program is applied once to arguments drawn from the
\* sets above.
FnCalls ==
  {[fn |-> "buildHeader", arg |-> h] : h \in HdrParams}
    \cup {[fn |-> "positions", arg |-> a] : a \in PosArgs}
    \cup {[fn |-> "insertJpegAPP15", arg |-> a] : a \in JpegCalls}
    \cup {[fn |-> "deriveKeyAdaptive", arg |-> a] : a \in KdfArgs}
    \cup {[fn |-> "encode, decode", arg |-> a] : a \in KeyArgs}
    \cup {[fn |-> "detectCarrier", arg |-> a] : a \in DetectArgs}
    \cup {[fn |-> "parseHeader", arg |-> h] : h \in ParseInputs}
    \cup {[fn |-> "embedGeneric", arg |-> [fileBuffer |-> f, data |-> d]] :
           f \in GenericHosts, d \in GenericPayloads}
    \cup {[fn |-> "extractGeneric", arg |-> f] : f \in GenericFiles}
    \cup {[fn |-> "embedLSBPNG", arg |-> [fileBuffer |-> f, payload |-> d]] :
           f \in LsbHosts, d \in LsbPayloads}
    \cup {[fn |-> "insertJpegAPP15, extractJpegAPP15", arg |-> a] : a \in RtJpegCalls}
    \cup {[fn |-> "insertWebPChunk, extractWebPChunk", arg |-> a] : a \in RtWebPCalls}
    \cup {[fn |-> "appendTrailer, extractTrailer", arg |-> a] : a \in RtTrailerCalls}
    \cup {[fn |-> "shufflePositions", arg |-> a] : a \in ShuffleArgs}
    \cup {[fn |-> "processEncoding", arg |-> a] : a \in HdrArgs}
    \cup {[fn |-> "processDecoding", arg |-> a] : a \in BlobArgs}
    \cup {[fn |-> "capacityBits", arg |-> a] : a \in CapacityArgs}
    \cup {[fn |-> "embedAuto, embedAuto", arg |-> a] : a \in EmbedArgs}
    \cup {[fn |-> "processEncoding, processEncoding, processDecoding", arg |-> a] : a \in ReEncodeArgs}

InitFn ==
  /\ InitWith({"bin"})
  /\ devLogN = SCRYPT_LOGN_PREFERRED
  /\ capIn = NoCapIn
  /\ capOut = NoCapOut
  /\ call \in FnCalls
  /\ ret = NoRet

NextFn ==
  \/ ApplyBuildHeader
  \/ ApplyPositions
  \/ ApplyInsertJpegAPP15
  \/ ApplyDeriveKeyAdaptive
  \/ ApplyEncodeThenDecode
  \/ ApplyDetectCarrier
  \/ ApplyParseHeader
  \/ ApplyEmbedGeneric
  \/ ApplyExtractGeneric
  \/ ApplyEmbedLSBPNG
  \/ ApplyJpegRoundTrip
  \/ ApplyWebPRoundTrip
  \/ ApplyTrailerRoundTrip
  \/ ApplyShufflePositions
  \/ ApplyProcessEncoding
  \/ ApplyDecodeContainer
  \/ ApplyCapacityBits
  \/ ApplyEmbedTwice
  \/ ApplyReEncode

SpecFn == InitFn /\ [][NextFn]_vars

====
